---- MODULE Spec2Model ----
(***************************************************************************)
(* Compute Wars: the turn-resolution engine (compute-wars/engine.js) over  *)
(* the data tables of compute-wars/data.js.                                *)
(*                                                                         *)
(* The game state is one record, `state`, shaped like the engine's         *)
(* GameState; every submitAction call is one step that replaces it by the  *)
(* returned state and records the returned response in `response`.         *)
(*                                                                         *)
(* Conventions:                                                            *)
(*   - money, prices and quantities are integers, as in the engine;        *)
(*   - fractions of the data tables are kept as integers over a stated     *)
(*     denominator (price modifiers and seizure risks in hundredths,       *)
(*     interest rates in percent, probabilities in 1/10000);               *)
(*   - costBasis, which the engine keeps as a JS double, is an exact       *)
(*     fraction [n, d] in lowest terms;                                    *)
(*   - a JS object with optional keys is a function whose DOMAIN is the    *)
(*     set of keys present; a JS array is a sequence;                      *)
(*   - every Math.random() draw is an input of the step: a roll            *)
(*     `Math.random() < p` may come out either way whenever 0 < p < 1,     *)
(*     and a numeric draw takes its value from Rand (hundredths).          *)
(***************************************************************************)
EXTENDS Integers, Sequences, FiniteSets, TLC

VARIABLES
  state,       \* the GameState the session holds: what the last call returned
  response,    \* the response of the last call, without response.state
  lastAction,  \* action.action of the last call
  rolls,       \* random happenings the random source has produced so far
  limits       \* how far the session is followed: [turn, trades, debt, upgrades]

vars == <<state, response, lastAction, rolls, limits>>

---------------------------------------------------------------------------
(* Bounds of the exploration.                                              *)

\* a session is followed for MaxTurn - 1 turn advances
MaxTurn == 2
\* random happenings (an event, a travel choice, a seizure, a price move, a
\* supply shift, an oracle appearance) the random source produces in a session
MaxRolls == 1
\* successful trades and random happenings of a session, together
MaxTrades == 2
\* a borrow is explored while the debt has grown by less than MaxDebt
MaxDebt == 20000

\* values of a Math.random() draw that sets a magnitude, in hundredths
Rand == {50}
\* values of a price draw off the middle (a draw of 0.5 leaves the price)
RandPrice == {0}
\* goods a randomChoice(Object.keys(GOODS)) draw is explored with
RandGoods == {"compute"}
\* goods the caller names
TradedGoods == {"compute", "datasets"}
\* quantities and amounts the caller submits
Quantities == {0, 1, 10}
Amounts == {0, 20000}

---------------------------------------------------------------------------
(* Utility functions.                                                      *)

Max(a, b) == IF a >= b THEN a ELSE b

Min(a, b) == IF a <= b THEN a ELSE b

clamp(value, min, max) == Max(min, Min(max, value))

\* Math.round(n / d) for d > 0: the nearest integer, halves up
RoundDiv(n, d) == (n \div d) + (IF 2 * (n % d) >= d THEN 1 ELSE 0)

\* Math.floor(n / d) for d > 0
FloorDiv(n, d) == n \div d

RECURSIVE GCD(_, _)
GCD(a, b) == IF b = 0 THEN a ELSE GCD(b, a % b)

Abs(a) == IF a < 0 THEN -a ELSE a

\* an exact fraction in lowest terms, d > 0
Frac(n, d) == LET g == GCD(Abs(n), d) IN [n |-> n \div g, d |-> d \div g]

FracInt(k) == [n |-> k, d |-> 1]

FracAddInt(f, k) == Frac(f.n + k * f.d, f.d)

\* f * (a / b)
FracScale(f, a, b) == Frac(f.n * a, f.d * b)

\* obj[key] || 0
Get(obj, key) == IF key \in DOMAIN obj THEN obj[key] ELSE 0

Put(obj, key, value) == [k \in DOMAIN obj \cup {key} |-> IF k = key THEN value ELSE obj[k]]

\* delete obj[key]
Delete(obj, key) == [k \in DOMAIN obj \ {key} |-> obj[k]]

EmptyObject == [k \in {} |-> 0]

\* array.includes(x)
Includes(array, x) == \E i \in 1..Len(array) : array[i] = x

\* array.pop()
Pop(array) == SubSeq(array, 1, Len(array) - 1)

\* array.shift()
Shift(array) == SubSeq(array, 2, Len(array))

RECURSIVE SumOver(_, _)
SumOver(f, keys) ==
  IF keys = {} THEN 0
  ELSE LET k == CHOOSE x \in keys : TRUE IN f[k] + SumOver(f, keys \ {k})

---------------------------------------------------------------------------
(* Data tables (data.js).                                                  *)

GoodIds == <<"h100", "h200", "b100", "compute", "datasets", "talent">>

GOODS ==
  [h100     |-> [baseMin |-> 25000, baseMax |-> 40000],
   h200     |-> [baseMin |-> 30000, baseMax |-> 50000],
   b100     |-> [baseMin |-> 40000, baseMax |-> 80000],
   compute  |-> [baseMin |-> 500,   baseMax |-> 2000],
   datasets |-> [baseMin |-> 10000, baseMax |-> 30000],
   talent   |-> [baseMin |-> 50000, baseMax |-> 150000]]

Goods == DOMAIN GOODS

MarketIds == <<"us-west", "eu-central", "china-east", "singapore">>

NoGoods == [g \in {} |-> [seizureRisk |-> 0, pricePremium |-> 0]]

\* priceModifiers, customsRisk, seizureRisk and pricePremium in hundredths
MARKETS ==
  [m \in {"us-west", "eu-central", "china-east", "singapore"} |->
    CASE m = "us-west" ->
           [priceModifiers |-> [h100 |-> 100, h200 |-> 100, b100 |-> 100,
                                compute |-> 90, datasets |-> 100, talent |-> 110],
            customsRisk |-> 5,
            restrictedGoods |-> NoGoods]
      [] m = "eu-central" ->
           [priceModifiers |-> [h100 |-> 95, h200 |-> 95, b100 |-> 95,
                                compute |-> 100, datasets |-> 140, talent |-> 100],
            customsRisk |-> 8,
            restrictedGoods |->
              [g \in {"datasets"} |-> [seizureRisk |-> 25, pricePremium |-> 140]]]
      [] m = "china-east" ->
           [priceModifiers |-> [h100 |-> 150, h200 |-> 160, b100 |-> 180,
                                compute |-> 90, datasets |-> 100, talent |-> 85],
            customsRisk |-> 15,
            restrictedGoods |->
              [g \in {"h100", "h200", "b100"} |->
                 CASE g = "h100" -> [seizureRisk |-> 30, pricePremium |-> 150]
                   [] g = "h200" -> [seizureRisk |-> 35, pricePremium |-> 160]
                   [] g = "b100" -> [seizureRisk |-> 45, pricePremium |-> 180]]]
      [] m = "singapore" ->
           [priceModifiers |-> [h100 |-> 110, h200 |-> 110, b100 |-> 110,
                                compute |-> 110, datasets |-> 110, talent |-> 115],
            customsRisk |-> 3,
            restrictedGoods |-> NoGoods]]

Markets == DOMAIN MARKETS

\* volatility and priceMultiplier in hundredths
SUPPLY_LEVELS ==
  [surplus  |-> [volatility |-> 5,  priceMultiplier |-> 85],
   normal   |-> [volatility |-> 10, priceMultiplier |-> 100],
   shortage |-> [volatility |-> 20, priceMultiplier |-> 120]]

NoId == "null"

UPGRADES ==
  [cargo_1      |-> [cost |-> 50000,  effect |-> [type |-> "inventory", value |-> 5],
                     prerequisite |-> NoId, unlockedByMilestone |-> NoId],
   cargo_2      |-> [cost |-> 150000, effect |-> [type |-> "inventory", value |-> 10],
                     prerequisite |-> "cargo_1", unlockedByMilestone |-> NoId],
   cargo_3      |-> [cost |-> 500000, effect |-> [type |-> "inventory", value |-> 20],
                     prerequisite |-> "cargo_2", unlockedByMilestone |-> NoId],
   reputation_1 |-> [cost |-> 100000, effect |-> [type |-> "reputation", value |-> 10],
                     prerequisite |-> NoId, unlockedByMilestone |-> NoId],
   reputation_2 |-> [cost |-> 300000, effect |-> [type |-> "reputation", value |-> 20],
                     prerequisite |-> "reputation_1", unlockedByMilestone |-> NoId],
   insurance    |-> [cost |-> 200000, effect |-> [type |-> "customs_protection", value |-> 50],
                     prerequisite |-> NoId, unlockedByMilestone |-> "series_a"],
   security     |-> [cost |-> 150000, effect |-> [type |-> "hack_protection", value |-> 50],
                     prerequisite |-> NoId, unlockedByMilestone |-> "survivor"]]

Upgrades == DOMAIN UPGRADES

\* Object.entries(UPGRADES) order
UpgradeIds ==
  <<"cargo_1", "cargo_2", "cargo_3", "reputation_1", "reputation_2", "insurance", "security">>

MILESTONES ==
  [seed_round   |-> [condition |-> [type |-> "net_worth", value |-> 100000],
                     reward |-> [type |-> "unlock_upgrade", value |-> "cargo_1"]],
   series_a     |-> [condition |-> [type |-> "net_worth", value |-> 500000],
                     reward |-> [type |-> "unlock_upgrade", value |-> "insurance"]],
   series_b     |-> [condition |-> [type |-> "net_worth", value |-> 1000000],
                     reward |-> [type |-> "unlock_upgrade", value |-> "reputation_2"]],
   unicorn      |-> [condition |-> [type |-> "net_worth", value |-> 10000000],
                     reward |-> [type |-> "achievement", value |-> "unicorn_badge"]],
   decacorn     |-> [condition |-> [type |-> "net_worth", value |-> 100000000],
                     reward |-> [type |-> "achievement", value |-> "decacorn_badge"]],
   first_trade  |-> [condition |-> [type |-> "trades", value |-> 1],
                     reward |-> [type |-> "tutorial", value |-> "complete"]],
   globetrotter |-> [condition |-> [type |-> "markets_visited", value |-> 4],
                     reward |-> [type |-> "reputation", value |-> 5]],
   bulk_trader  |-> [condition |-> [type |-> "goods_traded", value |-> 100],
                     reward |-> [type |-> "unlock_upgrade", value |-> "cargo_2"]],
   survivor     |-> [condition |-> [type |-> "turns", value |-> 50],
                     reward |-> [type |-> "unlock_upgrade", value |-> "security"]],
   debt_free    |-> [condition |-> [type |-> "paid_off_debt", value |-> TRUE],
                     reward |-> [type |-> "reputation", value |-> 10]]]

\* Object.entries(state.milestones) order
MilestoneIds ==
  <<"seed_round", "series_a", "series_b", "unicorn", "decacorn",
    "first_trade", "globetrotter", "bulk_trader", "survivor", "debt_free">>

\* probabilities in 1/10000; templates by their effect (data.js gives customs,
\* hack and audit templates an effect the roller never reads)
EVENTS ==
  [nvidia_announcement |-> [type |-> "market_shift", probability |-> 800,
                            templates |-> <<"drop", "rise", "rise_all">>],
   datacenter_news     |-> [type |-> "market_shift", probability |-> 700,
                            templates |-> <<"compute_rise", "compute_spike", "compute_volatile">>],
   ai_breakthrough     |-> [type |-> "market_shift", probability |-> 500,
                            templates |-> <<"talent_rise", "compute_drop", "datasets_drop">>],
   export_ban          |-> [type |-> "regulation", probability |-> 500,
                            templates |-> <<"restrict_china", "restrict_eu", "unrestrict">>],
   customs_seizure     |-> [type |-> "customs", probability |-> 1000,
                            templates |-> <<"seize", "fee">>],
   exchange_hack       |-> [type |-> "hack", probability |-> 300,
                            templates |-> <<"money_loss", "small_fee">>],
   tax_audit           |-> [type |-> "audit", probability |-> 500,
                            templates |-> <<"fine", "slow">>],
   bulk_buyer          |-> [type |-> "opportunity", probability |-> 1000,
                            templates |-> <<"premium_sell", "discount_buy">>],
   windfall            |-> [type |-> "windfall", probability |-> 200,
                            templates |-> <<"money_gain", "money_gain", "money_gain">>]]

\* Object.entries(EVENTS) order
EventIds ==
  <<"nvidia_announcement", "datacenter_news", "ai_breakthrough", "export_ban",
    "customs_seizure", "exchange_hack", "tax_audit", "bulk_buyer", "windfall">>

\* probability in 1/10000; each template by the choice ids it offers
TRAVEL_CHOICES ==
  [shady_deal |-> [probability |-> 1200, requiresRestrictedGoods |-> FALSE,
                   templates |-> << <<"accept", "decline">> >>],
   gambling   |-> [probability |-> 800, requiresRestrictedGoods |-> FALSE,
                   templates |-> << <<"gamble", "decline">>, <<"enter", "decline">> >>],
   intel      |-> [probability |-> 1000, requiresRestrictedGoods |-> FALSE,
                   templates |-> << <<"buy", "decline">> >>],
   smuggler   |-> [probability |-> 600, requiresRestrictedGoods |-> TRUE,
                   templates |-> << <<"use_smuggler", "decline">> >>]]

\* Object.entries(TRAVEL_CHOICES) order
ChoiceTypes == <<"shady_deal", "gambling", "intel", "smuggler">>

\* probability in 1/10000
ORACLE == [probability |-> 1500, baseCost |-> 5000]

\* interest rates in percent; thresholds and multipliers in hundredths;
\* supplyShiftChance and reputationEventModifier in 1/10000
CONFIG ==
  [startingBalance |-> 10000,
   startingInventoryCapacity |-> 10,
   startingReputation |-> 50,
   startingLocation |-> "us-west",
   debtBaseInterestRate |-> 5,
   debtMediumInterestRate |-> 8,
   debtHighInterestRate |-> 12,
   debtMediumThreshold |-> 50,
   debtHighThreshold |-> 100,
   maxDebtMultiplier |-> 200,
   bankruptcyMultiplier |-> 300,
   supplyShiftChance |-> 1000,
   reputationEventModifier |-> 100]

---------------------------------------------------------------------------
(* State initialization.                                                   *)

\* JS null, where the engine holds an object or null
null == [type |-> "null"]

InitialPrice(marketId, goodId) ==
  RoundDiv((GOODS[goodId].baseMin + GOODS[goodId].baseMax) * MARKETS[marketId].priceModifiers[goodId], 200)

\* achievedOnTurn: 0 stands for null (turns start at 1);
\* gameOverReason: "null" stands for null
createInitialState ==
  [player |->
     [balance |-> CONFIG.startingBalance,
      debt |-> 0,
      debtInterestRate |-> CONFIG.debtBaseInterestRate,
      location |-> CONFIG.startingLocation,
      inventory |-> EmptyObject,
      costBasis |-> EmptyObject,
      inventoryCapacity |-> CONFIG.startingInventoryCapacity,
      reputation |-> CONFIG.startingReputation],
   markets |->
     [m \in Markets |->
        [prices |-> [g \in Goods |-> InitialPrice(m, g)],
         supply |-> [g \in Goods |-> "normal"],
         priceHistory |-> [g \in Goods |-> <<InitialPrice(m, g)>>],
         restricted |-> <<>>]],
   turn |-> 1,
   milestones |-> [id \in DOMAIN MILESTONES |-> [achieved |-> FALSE, achievedOnTurn |-> 0]],
   unlockedUpgrades |-> <<>>,
   purchasedUpgrades |-> <<>>,
   pendingEvents |-> <<>>,
   stats |->
     [totalTrades |-> 0,
      goodsTraded |-> 0,
      marketsVisited |-> <<CONFIG.startingLocation>>,
      hadDebt |-> FALSE,
      peakNetWorth |-> CONFIG.startingBalance],
   pendingChoice |-> null,
   oraclePrediction |-> null,
   gameOver |-> FALSE,
   gameOverReason |-> "null"]

\* state[key] = value, for a key the state may not have yet
SetKey(s, key, value) == [k \in DOMAIN s \cup {key} |-> IF k = key THEN value ELSE s[k]]

\* delete state[key]
DeleteKey(s, key) == [k \in DOMAIN s \ {key} |-> s[k]]

\* if (state[key]), for a key that holds a string or true when present
HasKey(s, key) == key \in DOMAIN s

---------------------------------------------------------------------------
(* Calculations.                                                           *)

calculateInventoryUsed(inventory) == SumOver(inventory, DOMAIN inventory)

\* Math.round(costBasis / quantity)
calculateAverageCost(good, player) ==
  LET quantity == Get(player.inventory, good)
      costBasis == IF good \in DOMAIN player.costBasis THEN player.costBasis[good] ELSE FracInt(0)
  IN IF quantity = 0 THEN 0 ELSE RoundDiv(costBasis.n, costBasis.d * quantity)

calculateInventoryValue(inventory, prices) ==
  SumOver([g \in DOMAIN inventory |-> prices[g] * inventory[g]], DOMAIN inventory)

calculateNetWorth(s) ==
  s.player.balance
    + calculateInventoryValue(s.player.inventory, s.markets[s.player.location].prices)
    - s.player.debt

\* debtRatio = debt / netWorth against the thresholds (hundredths)
getDebtInterestRate(s) ==
  LET netWorth == calculateNetWorth(s) IN
  IF netWorth <= 0 THEN CONFIG.debtHighInterestRate
  ELSE IF s.player.debt * 100 >= CONFIG.debtHighThreshold * netWorth
         THEN CONFIG.debtHighInterestRate
  ELSE IF s.player.debt * 100 >= CONFIG.debtMediumThreshold * netWorth
         THEN CONFIG.debtMediumInterestRate
  ELSE CONFIG.debtBaseInterestRate

\* pendingEvents.find(e => e.effect === effect && e.good === goodId): its index, 0 if none
FindEvent(pendingEvents, effect, goodId) ==
  LET hits == {i \in 1..Len(pendingEvents) :
                 /\ "effect" \in DOMAIN pendingEvents[i]
                 /\ pendingEvents[i].effect = effect
                 /\ pendingEvents[i].good = goodId}
  IN IF hits = {} THEN 0 ELSE CHOOSE i \in hits : \A j \in hits : i <= j

\* Faulty variant of RemoveAt: the events behind the one found go with it.
RemoveFrom(seq, i) == SubSeq(seq, 1, i - 1)

\* pendingEvents.filter(e => e !== pendingEvents[i])
RemoveAt(seq, i) == SubSeq(seq, 1, i - 1) \o SubSeq(seq, i + 1, Len(seq))

getEffectiveBuyPrice(s, goodId) ==
  LET basePrice == s.markets[s.player.location].prices[goodId]
      i == FindEvent(s.pendingEvents, "discount_buy", goodId)
  IN IF i # 0
       THEN [price |-> RoundDiv(basePrice * (100 - s.pendingEvents[i].percent), 100),
             basePrice |-> basePrice, discount |-> s.pendingEvents[i].percent]
       ELSE [price |-> basePrice, basePrice |-> basePrice, discount |-> 0]

getEffectiveSellPrice(s, goodId) ==
  LET basePrice == s.markets[s.player.location].prices[goodId]
      i == FindEvent(s.pendingEvents, "premium_sell", goodId)
  IN IF i # 0
       THEN [price |-> RoundDiv(basePrice * (100 + s.pendingEvents[i].percent), 100),
             basePrice |-> basePrice, premium |-> s.pendingEvents[i].percent]
       ELSE [price |-> basePrice, basePrice |-> basePrice, premium |-> 0]

\* Faulty variant of getMaxBorrowable: the debt owed is not subtracted.
getMaxBorrowableIgnoringDebt(s) ==
  LET netWorth == Max(0, calculateNetWorth(s))
      maxDebt == (netWorth * CONFIG.maxDebtMultiplier) \div 100
  IN Max(0, maxDebt)

getMaxBorrowable(s) ==
  LET netWorth == Max(0, calculateNetWorth(s))
      maxDebt == (netWorth * CONFIG.maxDebtMultiplier) \div 100
  IN Max(0, maxDebt - s.player.debt)

---------------------------------------------------------------------------
(* Price updates.                                                          *)

\* The draws of one updatePrices call: `change` gives, for every market and
\* good, the Math.random() of the price walk (hundredths); `shifts` gives, for
\* the pairs whose supply roll came under supplyShiftChance, the direction.
PriceBounds(marketId, goodId) ==
  LET modifier == MARKETS[marketId].priceModifiers[goodId] IN
  [min |-> RoundDiv(GOODS[goodId].baseMin * modifier * 7, 1000),
   max |-> RoundDiv(GOODS[goodId].baseMax * modifier * 13, 1000)]

\* the sum of two fractions, and Math.round of one
FracAdd(f, g) == Frac(f.n * g.d + g.n * f.d, f.d * g.d)

FracRound(f) == RoundDiv(f.n, f.d)

\* (1 + change) * 0.9, with change = (r - 0.5) * 2 * volatility
Walk(volatility, r) == Frac(9 * (5000 + (r - 50) * volatility), 50000)

\* ((good.baseMin + good.baseMax) / 2) * modifier * supplyMult * 0.1
Anchor(marketId, goodId, priceMultiplier) ==
  FracScale(Frac((GOODS[goodId].baseMin + GOODS[goodId].baseMax)
                   * MARKETS[marketId].priceModifiers[goodId], 200),
            priceMultiplier, 1000)

Drift(oldPrice, walk) == Frac(oldPrice * walk.n, walk.d)

\* Faulty variant of Clamped: the new price is rounded but not clamped.
Unclamped(price, bounds) == price

Clamped(price, bounds) == clamp(price, bounds.min, bounds.max)

\* oldPrice * (1 + change) * 0.9 + basePrice * 0.1, rounded and clamped; the
\* engine computes it in doubles
NewPrice(marketId, goodId, oldPrice, supplyLevel, r) ==
  Clamped(FracRound(FracAdd(Drift(oldPrice, Walk(SUPPLY_LEVELS[supplyLevel].volatility, r)),
                            Anchor(marketId, goodId,
                                   SUPPLY_LEVELS[supplyLevel].priceMultiplier))),
          PriceBounds(marketId, goodId))

\* Faulty variant of PushHistory: a full list drops its newest entry.
PushHistoryEvictingNewest(history, newPrice) ==
  LET pushed == Append(history, newPrice)
  IN IF Len(pushed) > 8 THEN Pop(pushed) ELSE pushed

\* priceHistory[goodId].push(newPrice); keep the last 8
PushHistory(history, newPrice) ==
  LET pushed == Append(history, newPrice)
  IN IF Len(pushed) > 8 THEN Shift(pushed) ELSE pushed

SupplyIndex(level) == CASE level = "surplus" -> 0 [] level = "normal" -> 1 [] level = "shortage" -> 2

SupplyLevelAt(index) == CASE index = 0 -> "surplus" [] index = 1 -> "normal" [] index = 2 -> "shortage"

ShiftSupply(level, direction) == SupplyLevelAt(clamp(SupplyIndex(level) + direction, 0, 2))

\* one market after its new prices are drawn
Repriced(market, m, newPrices, shifts) ==
  [market EXCEPT
     !.prices = newPrices,
     !.priceHistory = [g \in Goods |-> PushHistory(@[g], newPrices[g])],
     !.supply = [g \in Goods |->
                   IF <<m, g>> \in DOMAIN shifts THEN ShiftSupply(@[g], shifts[<<m, g>>])
                   ELSE @[g]]]

updatePrices(s, change, shifts) ==
  [s EXCEPT !.markets =
     [m \in Markets |->
        Repriced(@[m], m,
                 [g \in Goods |-> NewPrice(m, g, @[m].prices[g], @[m].supply[g], change[<<m, g>>])],
                 shifts)]]

\* the draws updatePrices is explored with: one price draw shared by all
\* pairs, and at most one supply shift, of eu-central compute;
\* n bounds the happenings (a draw off 0.5, a shift)
PriceDraws(n) ==
  LET flat == [p \in Markets \X Goods |-> 50]
      moved == {[p \in Markets \X Goods |-> r] : r \in RandPrice}
      none == <<>>
      one == {[p \in {<<"eu-central", "compute">>} |-> d] : d \in {-1, 1}}
  IN {[change |-> flat, shifts |-> none, used |-> 0]}
       \cup (IF n >= 1
               THEN {[change |-> c, shifts |-> none, used |-> 1] : c \in moved}
                      \cup {[change |-> flat, shifts |-> sh, used |-> 1] : sh \in one}
               ELSE {})
       \cup (IF n >= 2
               THEN {[change |-> c, shifts |-> sh, used |-> 2] : c \in moved, sh \in one}
               ELSE {})

---------------------------------------------------------------------------
(* Event system.                                                           *)

\* (state.player.reputation - 50) * CONFIG.reputationEventModifier, in 1/10000
ReputationMod(s) == (s.player.reputation - 50) * CONFIG.reputationEventModifier

\* Math.floor(Math.random() * span) + base, for a draw r in hundredths
DrawInt(r, span, base) == FloorDiv(r * span, 100) + base

\* The events one EVENTS entry can materialize in this state; {} when its roll
\* cannot succeed.  Every roll can fail (each probability is below 1).
PossibleEvents(s, eventId, isTraveling, destination) ==
  LET eventData == EVENTS[eventId]
      templates == {eventData.templates[i] : i \in 1..Len(eventData.templates)}
      reputationMod == ReputationMod(s)
  IN
  CASE eventData.type = "market_shift" ->
         IF eventData.probability * 2 - reputationMod > 0
           THEN {[id |-> eventId, type |-> eventData.type, effect |-> t, good |-> g,
                  percent |-> DrawInt(r, 20, 10)] : t \in templates, g \in RandGoods, r \in Rand}
           ELSE {}
    [] eventData.type = "regulation" ->
         {[id |-> eventId, type |-> eventData.type, effect |-> "restrict", good |-> g,
           market |-> "china-east"] : g \in RandGoods}
         \cup {[id |-> eventId, type |-> eventData.type, effect |-> "restrict", good |-> g,
                market |-> "eu-central"] : g \in RandGoods}
         \cup {[id |-> eventId, type |-> eventData.type, effect |-> "unrestrict", good |-> g,
                market |-> m] : g \in RandGoods, m \in {"us-west"}}
    [] eventData.type = "customs" ->
         \* insurance zeroes the probability only when its own roll succeeds
         IF /\ isTraveling
            /\ MARKETS[destination].customsRisk * 100 - reputationMod > 0
            /\ calculateInventoryUsed(s.player.inventory) > 0
           THEN {[id |-> eventId, type |-> eventData.type, effect |-> "seize", good |-> g,
                  quantity |-> Max(1, FloorDiv(s.player.inventory[g] * (3 * r + 100), 1000))] :
                   g \in {x \in DOMAIN s.player.inventory : s.player.inventory[x] > 0}, r \in Rand}
           ELSE {}
    [] eventData.type = "hack" ->
         IF eventData.probability * 2 + reputationMod > 0
           THEN {[id |-> eventId, type |-> eventData.type, effect |-> "money_loss",
                  amount |-> FloorDiv(s.player.balance * (3 * r + 100), 2000)] : r \in Rand}
           ELSE {}
    [] eventData.type = "audit" ->
         \* probability + min(0.05, netWorth / 10000000) + reputationMod * 0.5, in 1/10000000
         LET netWorth == calculateNetWorth(s) IN
         IF eventData.probability * 1000 + Min(500000, netWorth) + reputationMod * 500 > 0
           THEN {[id |-> eventId, type |-> eventData.type, effect |-> "fine",
                  amount |-> FloorDiv(netWorth * (r + 40), 2000)] : r \in Rand}
           ELSE {}
    [] eventData.type = "opportunity" ->
         IF eventData.probability + reputationMod > 0
           THEN {[id |-> eventId, type |-> eventData.type, effect |-> t, good |-> g,
                  percent |-> DrawInt(r, 30, 20)] : t \in templates, g \in RandGoods, r \in Rand}
           ELSE {}
    [] eventData.type = "windfall" ->
         IF eventData.probability + reputationMod > 0
           THEN {[id |-> eventId, type |-> eventData.type, effect |-> "money_gain",
                  amount |-> DrawInt(r, 30000, 10000)] : r \in Rand}
           ELSE {}

\* the event lists rollForEvents can return with at most n events, from
\* EVENTS entry i on, in Object.entries(EVENTS) order
RECURSIVE EventLists(_, _, _, _, _)
EventLists(s, isTraveling, destination, i, n) ==
  IF i > Len(EventIds) THEN {<<>>}
  ELSE EventLists(s, isTraveling, destination, i + 1, n)
         \cup (IF n = 0 THEN {}
               ELSE {<<e>> \o rest :
                       e \in PossibleEvents(s, EventIds[i], isTraveling, destination),
                       rest \in EventLists(s, isTraveling, destination, i + 1, n - 1)})

rollForEvents(s, isTraveling, destination, n) == EventLists(s, isTraveling, destination, 1, n)

\* Faulty variant of Unrestrict: every market loses its last restriction.
UnrestrictEverywhere(markets) ==
  [m \in Markets |->
     [markets[m] EXCEPT !.restricted = IF Len(@) > 0 THEN Pop(@) ELSE @]]

\* unrestrict: the first market with a restriction loses its last one
Unrestrict(markets) ==
  LET hit == {i \in 1..Len(MarketIds) : Len(markets[MarketIds[i]].restricted) > 0} IN
  IF hit = {} THEN markets
  ELSE LET first == MarketIds[CHOOSE i \in hit : \A j \in hit : i <= j]
       IN [markets EXCEPT ![first].restricted = Pop(@)]

\* prices[g] = Math.round(prices[g] * factor / 100) in every market, for g in goods
ScalePrices(markets, goods, factor) ==
  [m \in Markets |->
     [markets[m] EXCEPT !.prices =
        [g \in Goods |-> IF g \in goods THEN RoundDiv(@[g] * factor, 100) ELSE @[g]]]]

applyEvent(s, event) ==
  CASE event.effect = "drop" ->
         [s EXCEPT !.markets = ScalePrices(@, {event.good}, 100 - event.percent)]
    [] event.effect = "rise" ->
         [s EXCEPT !.markets = ScalePrices(@, {event.good}, 100 + event.percent)]
    [] event.effect = "rise_all" ->
         [s EXCEPT !.markets = ScalePrices(@, {"h100", "h200", "b100"}, 100 + event.percent)]
    [] event.effect \in {"compute_rise", "compute_spike"} ->
         [s EXCEPT !.markets = ScalePrices(@, {"compute"}, 130)]
    [] event.effect = "compute_drop" ->
         [s EXCEPT !.markets = ScalePrices(@, {"compute"}, 75)]
    [] event.effect = "talent_rise" ->
         [s EXCEPT !.markets = ScalePrices(@, {"talent"}, 125)]
    [] event.effect = "datasets_drop" ->
         [s EXCEPT !.markets = ScalePrices(@, {"datasets"}, 70)]
    [] event.effect = "restrict" ->
         IF Includes(s.markets[event.market].restricted, event.good) THEN s
         ELSE [s EXCEPT !.markets[event.market].restricted = Append(@, event.good)]
    [] event.effect = "unrestrict" ->
         [s EXCEPT !.markets = Unrestrict(@)]
    [] event.effect = "seize" ->
         LET currentQty == Get(s.player.inventory, event.good) IN
         IF currentQty > 0
           THEN LET seizeQty == Min(event.quantity, currentQty)
                    currentCostBasis == IF event.good \in DOMAIN s.player.costBasis
                                          THEN s.player.costBasis[event.good] ELSE FracInt(0)
                    reduced == FracScale(currentCostBasis, currentQty - seizeQty, currentQty)
                IN IF currentQty - seizeQty = 0
                     THEN [s EXCEPT !.player.inventory = Delete(@, event.good),
                                    !.player.costBasis = Delete(@, event.good)]
                     ELSE [s EXCEPT !.player.inventory = Put(@, event.good, currentQty - seizeQty),
                                    !.player.costBasis = Put(@, event.good, reduced)]
           ELSE s
    [] event.effect \in {"money_loss", "fine"} ->
         [s EXCEPT !.player.balance = Max(0, @ - event.amount)]
    [] event.effect = "money_gain" ->
         [s EXCEPT !.player.balance = @ + event.amount]
    [] event.effect \in {"premium_sell", "discount_buy"} ->
         [s EXCEPT !.pendingEvents = Append(@, event)]
    [] OTHER -> s

RECURSIVE applyEvents(_, _)
applyEvents(s, events) ==
  IF events = <<>> THEN s
  ELSE applyEvents(applyEvent(s, Head(events)), Tail(events))

---------------------------------------------------------------------------
(* Milestone checking.                                                     *)

conditionMet(s, condition, netWorth) ==
  CASE condition.type = "net_worth" -> netWorth >= condition.value
    [] condition.type = "trades" -> s.stats.totalTrades >= condition.value
    [] condition.type = "markets_visited" -> Len(s.stats.marketsVisited) >= condition.value
    [] condition.type = "goods_traded" -> s.stats.goodsTraded >= condition.value
    [] condition.type = "turns" -> s.turn >= condition.value
    [] condition.type = "paid_off_debt" -> s.stats.hadDebt /\ s.player.debt = 0
    [] OTHER -> FALSE

\* Faulty variant of applyReward: a reputation reward is added twice.
applyRewardTwice(s, reward) ==
  CASE reward.type = "unlock_upgrade" ->
         IF Includes(s.unlockedUpgrades, reward.value) THEN s
         ELSE [s EXCEPT !.unlockedUpgrades = Append(@, reward.value)]
    [] reward.type = "reputation" ->
         [s EXCEPT !.player.reputation = @ + 2 * reward.value]
    [] OTHER -> s

applyReward(s, reward) ==
  CASE reward.type = "unlock_upgrade" ->
         IF Includes(s.unlockedUpgrades, reward.value) THEN s
         ELSE [s EXCEPT !.unlockedUpgrades = Append(@, reward.value)]
    [] reward.type = "reputation" ->
         [s EXCEPT !.player.reputation = @ + reward.value]
    [] OTHER -> s

\* Faulty variant of checkMilestone: the `if (milestone.achieved) continue`
\* is missing, so a milestone whose condition holds is stamped again.
checkMilestoneAgain(r, id, netWorth) ==
  IF conditionMet(r.state, MILESTONES[id].condition, netWorth)
    THEN [state |-> applyReward([r.state EXCEPT !.milestones[id] =
                                   [achieved |-> TRUE, achievedOnTurn |-> r.state.turn]],
                                MILESTONES[id].reward),
          achieved |-> Append(r.achieved, id)]
    ELSE r

\* one pass of the loop body, for milestone id; r is [state, achieved]
checkMilestone(r, id, netWorth) ==
  IF r.state.milestones[id].achieved THEN r
  ELSE IF conditionMet(r.state, MILESTONES[id].condition, netWorth)
    THEN [state |-> applyReward([r.state EXCEPT !.milestones[id] =
                                   [achieved |-> TRUE, achievedOnTurn |-> r.state.turn]],
                                MILESTONES[id].reward),
          achieved |-> Append(r.achieved, id)]
    ELSE r

RECURSIVE MilestoneLoop(_, _, _)
MilestoneLoop(r, i, netWorth) ==
  IF i > Len(MilestoneIds) THEN r
  ELSE MilestoneLoop(checkMilestone(r, MilestoneIds[i], netWorth), i + 1, netWorth)

\* returns [state, achieved]
checkMilestones(s) ==
  LET netWorth == calculateNetWorth(s)
      peaked == IF netWorth > s.stats.peakNetWorth
                  THEN [s EXCEPT !.stats.peakNetWorth = netWorth] ELSE s
  IN MilestoneLoop([state |-> peaked, achieved |-> <<>>], 1, netWorth)

---------------------------------------------------------------------------
(* Game over checking.                                                     *)

\* Faulty variant of checkGameOver: debt is compared with net worth alone,
\* the bankruptcy multiplier is left out.
checkGameOverEarly(s) ==
  LET netWorth == calculateNetWorth(s) IN
  IF /\ s.player.debt > 0
     /\ \/ netWorth <= 0
        \/ s.player.debt > netWorth
    THEN [s EXCEPT !.gameOver = TRUE, !.gameOverReason = "bankruptcy"]
  ELSE IF /\ s.player.balance <= 0
          /\ calculateInventoryUsed(s.player.inventory) = 0
          /\ getMaxBorrowable(s) <= 0
    THEN [s EXCEPT !.gameOver = TRUE, !.gameOverReason = "destitution"]
  ELSE s

checkGameOver(s) ==
  LET netWorth == calculateNetWorth(s) IN
  IF /\ s.player.debt > 0
     /\ \/ netWorth <= 0
        \/ s.player.debt * 100 > netWorth * CONFIG.bankruptcyMultiplier
    THEN [s EXCEPT !.gameOver = TRUE, !.gameOverReason = "bankruptcy"]
  ELSE IF /\ s.player.balance <= 0
          /\ calculateInventoryUsed(s.player.inventory) = 0
          /\ getMaxBorrowable(s) <= 0
    THEN [s EXCEPT !.gameOver = TRUE, !.gameOverReason = "destitution"]
  ELSE s

---------------------------------------------------------------------------
(* Travel choice events.                                                   *)

\* the numeric draws generateChoiceEvent is explored with: one value for all
ChoiceDraws ==
  {[quantity |-> r, discount |-> r, risk |-> r, amount |-> r, entryFee |-> r, cost |-> r] :
     r \in Rand}

generateChoiceEvent(type, s, destination, template, goodId, d) ==
  [id |-> type,
   type |-> type,
   choices |-> template,
   params |->
     [goodId |-> goodId,
      quantity |-> DrawInt(d.quantity, 5, 1),
      discount |-> DrawInt(d.discount, 30, 20),
      risk |-> DrawInt(d.risk, 25, 15),
      amount |-> FloorDiv(s.player.balance * (100 + 3 * d.amount), 1000),
      entryFee |-> DrawInt(d.entryFee, 15000, 5000),
      cost |-> DrawInt(d.cost, 10000, 5000),
      accuracy |-> 50 + FloorDiv(s.player.reputation * 3, 10),
      success |-> 60 + FloorDiv(s.player.reputation * 2, 10)],
   destination |-> destination]

\* some held good is restricted at the destination (data.js restrictedGoods)
HasRestricted(s, destination) ==
  \E goodId \in DOMAIN s.player.inventory :
    /\ s.player.inventory[goodId] > 0
    /\ goodId \in DOMAIN MARKETS[destination].restrictedGoods

\* The choice events a travel can raise; each type's roll can fail, so any
\* eligible type can be the first to succeed.  null is returned apart.
rollForTravelChoice(s, destination) ==
  UNION {
    IF /\ TRAVEL_CHOICES[type].requiresRestrictedGoods => HasRestricted(s, destination)
       /\ TRAVEL_CHOICES[type].probability * 10 + ReputationMod(s) * 3 > 0
      THEN {generateChoiceEvent(type, s, destination, TRAVEL_CHOICES[type].templates[i], g, d) :
              i \in 1..Len(TRAVEL_CHOICES[type].templates), g \in RandGoods, d \in ChoiceDraws}
      ELSE {} : type \in DOMAIN TRAVEL_CHOICES}

NoResult == [success |-> TRUE, gainedGoods |-> null, lostMoney |-> 0, gainedMoney |-> 0]

\* the Math.random() draws of one resolveChoiceEvent call, in call order (hundredths)
ResolveDraws == {[first |-> r1, second |-> r2, third |-> r2] : r1 \in {0, 90}, r2 \in Rand}

\* Faulty variant of resolveChoiceEvent: `state.pendingChoice = null` is missing.
resolveChoiceEventKeeping(s, choiceId, d) == [state |-> s, result |-> NoResult]

\* Faulty variant of resolveChoiceEvent: the cost in the choice's params is
\* charged whatever the player chooses.
resolveChoiceEventCharging(s, choiceId, d) ==
  [state |-> [s EXCEPT !.pendingChoice = null,
                       !.player.balance = @ - Min(s.pendingChoice.params.cost, @)],
   result |-> NoResult]

\* returns [state, result]; d holds the draws.  The caller has checked that a
\* choice is pending.
resolveChoiceEvent(s, choiceId, d) ==
  LET choice == s.pendingChoice
      params == choice.params
      here == s.markets[s.player.location].prices
      out ==
        CASE choice.type = "shady_deal" /\ choiceId = "accept" ->
               LET price == RoundDiv(here[params.goodId] * (100 - params.discount), 100)
                              * params.quantity
               IN IF d.first > params.risk
                    THEN IF s.player.balance >= price
                           THEN [state |->
                                   [s EXCEPT
                                      !.player.balance = @ - price,
                                      !.player.inventory =
                                         Put(@, params.goodId, Get(@, params.goodId) + params.quantity),
                                      !.player.costBasis =
                                         Put(@, params.goodId,
                                             FracAddInt(IF params.goodId \in DOMAIN @
                                                          THEN @[params.goodId] ELSE FracInt(0),
                                                        price))],
                                 result |-> [NoResult EXCEPT
                                               !.gainedGoods = [good |-> params.goodId,
                                                                quantity |-> params.quantity],
                                               !.lostMoney = price]]
                           ELSE [state |-> s, result |-> NoResult]
                    ELSE IF s.player.balance >= price
                           THEN [state |-> [s EXCEPT !.player.balance = @ - price],
                                 result |-> [NoResult EXCEPT !.lostMoney = price]]
                           ELSE [state |-> s, result |-> NoResult]
          [] choice.type = "gambling" /\ choiceId = "gamble" ->
               LET amount == Min(params.amount, s.player.balance) IN
               IF d.first < 50
                 THEN [state |-> [s EXCEPT !.player.balance = @ + amount],
                       result |-> [NoResult EXCEPT !.gainedMoney = amount]]
                 ELSE [state |-> [s EXCEPT !.player.balance = @ - amount],
                       result |-> [NoResult EXCEPT !.lostMoney = amount]]
          [] choice.type = "gambling" /\ choiceId = "enter" ->
               LET fee == Min(params.entryFee, s.player.balance)
                   \* multiplier 2 + r * 3 or r * 0.5
                   prize == IF d.first < 30
                              THEN RoundDiv(fee * (200 + 3 * d.second), 100)
                              ELSE RoundDiv(fee * d.second, 200)
               IN [state |-> [s EXCEPT !.player.balance = @ - fee + prize],
                   result |-> IF prize > fee
                                THEN [NoResult EXCEPT !.gainedMoney = prize - fee]
                                ELSE [NoResult EXCEPT !.lostMoney = fee - prize]]
          [] choice.type = "intel" /\ choiceId = "buy" ->
               LET cost == Min(params.cost, s.player.balance)
                   paid == [s EXCEPT !.player.balance = @ - cost]
               IN [state |->
                     IF d.first < params.accuracy
                       THEN [paid EXCEPT !.pendingEvents =
                               Append(@, [type |-> "intel_tip",
                                          good |-> params.goodId,
                                          direction |-> IF d.second < 50 THEN "rise" ELSE "fall",
                                          turnsRemaining |-> DrawInt(d.third, 2, 1)])]
                       ELSE paid,
                   result |-> [NoResult EXCEPT !.lostMoney = cost]]
          [] choice.type = "smuggler" /\ choiceId = "use_smuggler" ->
               LET cost == Min(params.cost, s.player.balance)
                   paid == [s EXCEPT !.player.balance = @ - cost]
                   caught == {goodId \in DOMAIN s.player.inventory :
                                /\ s.player.inventory[goodId] > 0
                                /\ goodId \in DOMAIN MARKETS[choice.destination].restrictedGoods}
               IN [state |->
                     IF d.first < params.success
                       THEN SetKey(paid, "_smuggledThisTrip", TRUE)
                       ELSE [paid EXCEPT
                               !.player.inventory = [g \in DOMAIN @ \ caught |-> @[g]],
                               !.player.costBasis = [g \in DOMAIN @ \ caught |-> @[g]]],
                   result |-> [NoResult EXCEPT !.lostMoney = cost]]
          [] OTHER -> [state |-> s, result |-> NoResult]
  IN [state |-> [out.state EXCEPT !.pendingChoice = null], result |-> out.result]

---------------------------------------------------------------------------
(* Seizure on arrival.                                                     *)

\* The draws of one checkSeizureRisk call: for each good restricted at the
\* destination and held, the outcome of its rolls ("none", "seize", or
\* "saved": insurance saved it) and the Math.random() of the seized share.
SeizureDraws(s, destination, n) ==
  LET held == {g \in DOMAIN MARKETS[destination].restrictedGoods : Get(s.player.inventory, g) > 0}
      outcomes == {[outcome |-> "none", share |-> 0]}
                    \cup {[outcome |-> "seize", share |-> r] : r \in Rand}
                    \cup (IF Includes(s.purchasedUpgrades, "insurance")
                            THEN {[outcome |-> "saved", share |-> 0]} ELSE {})
  IN {d \in [held -> outcomes] : Cardinality({g \in held : d[g].outcome # "none"}) <= n}

SeizureUsed(d) == Cardinality({g \in DOMAIN d : d[g].outcome # "none"})

\* Faulty variant of seizeGood: the cost basis is left as it was.
seizeGoodKeepingBasis(r, goodId, d) ==
  LET qty == Get(r.state.player.inventory, goodId) IN
  IF qty <= 0 THEN r
  ELSE IF d[goodId].outcome = "seize"
    THEN LET seizeQty == Max(1, FloorDiv(qty * (300 + 4 * d[goodId].share), 1000))
             left == qty - seizeQty
             costBasis == r.state.player.costBasis
         IN [state |->
               [r.state EXCEPT
                  !.player.inventory = IF left <= 0 THEN Delete(@, goodId) ELSE Put(@, goodId, left)],
             seized |-> Append(r.seized, [good |-> goodId, quantity |-> seizeQty,
                                          insuranceSaved |-> FALSE])]
  ELSE IF d[goodId].outcome = "saved"
    THEN [r EXCEPT !.seized = Append(@, [good |-> goodId, quantity |-> 0,
                                         insuranceSaved |-> TRUE])]
  ELSE r

\* one pass of the loop body, for goodId; r is [state, seized]
seizeGood(r, goodId, d) ==
  LET qty == Get(r.state.player.inventory, goodId) IN
  IF qty <= 0 THEN r
  ELSE IF d[goodId].outcome = "seize"
    THEN LET seizeQty == Max(1, FloorDiv(qty * (300 + 4 * d[goodId].share), 1000))
             left == qty - seizeQty
             costBasis == r.state.player.costBasis
         IN [state |->
               [r.state EXCEPT
                  !.player.inventory = IF left <= 0 THEN Delete(@, goodId) ELSE Put(@, goodId, left),
                  !.player.costBasis =
                     IF goodId \in DOMAIN costBasis /\ costBasis[goodId].n # 0
                       THEN Put(@, goodId,
                                FracInt(RoundDiv(costBasis[goodId].n * left,
                                                 costBasis[goodId].d * qty)))
                       ELSE @],
             seized |-> Append(r.seized, [good |-> goodId, quantity |-> seizeQty,
                                          insuranceSaved |-> FALSE])]
  ELSE IF d[goodId].outcome = "saved"
    THEN [r EXCEPT !.seized = Append(@, [good |-> goodId, quantity |-> 0,
                                         insuranceSaved |-> TRUE])]
  ELSE r

RECURSIVE SeizureLoop(_, _, _, _)
SeizureLoop(r, i, restricted, d) ==
  IF i > Len(GoodIds) THEN r
  ELSE SeizureLoop(IF GoodIds[i] \in restricted THEN seizeGood(r, GoodIds[i], d) ELSE r,
                   i + 1, restricted, d)

\* Faulty variant of checkSeizureRisk: the smuggler's flag is honoured but
\* left on the state.
checkSeizureRiskKeepingFlag(s, destination, d) ==
  IF HasKey(s, "_smuggledThisTrip")
    THEN [state |-> s, seized |-> <<>>]
    ELSE SeizureLoop([state |-> s, seized |-> <<>>], 1,
                     DOMAIN MARKETS[destination].restrictedGoods, d)

\* Faulty variant of checkSeizureRisk: the smuggler's flag is cleared but the
\* goods are rolled for all the same.
checkSeizureRiskDespiteSmuggler(s, destination, d) ==
  SeizureLoop([state |-> IF HasKey(s, "_smuggledThisTrip")
                           THEN DeleteKey(s, "_smuggledThisTrip") ELSE s,
               seized |-> <<>>], 1,
              DOMAIN MARKETS[destination].restrictedGoods, d)

\* returns [state, seized]
checkSeizureRisk(s, destination, d) ==
  IF HasKey(s, "_smuggledThisTrip")
    THEN [state |-> DeleteKey(s, "_smuggledThisTrip"), seized |-> <<>>]
    ELSE SeizureLoop([state |-> s, seized |-> <<>>], 1,
                     DOMAIN MARKETS[destination].restrictedGoods, d)

\* goods held that are restricted at the destination, in restrictedGoods order
\* Faulty variant of getAtRiskGoods: only a second unit puts a good at risk.
getAtRiskGoodsInBulk(s, destination) ==
  SelectSeq(GoodIds, LAMBDA g : /\ g \in DOMAIN MARKETS[destination].restrictedGoods
                                /\ Get(s.player.inventory, g) > 1)

getAtRiskGoods(s, destination) ==
  SelectSeq(GoodIds, LAMBDA g : /\ g \in DOMAIN MARKETS[destination].restrictedGoods
                                /\ Get(s.player.inventory, g) > 0)

---------------------------------------------------------------------------
(* Oracle.                                                                 *)

\* the predictions rollForOracle can return; accuracy in 1/1000; the
\* prediction, good and market are explored with one value each
rollForOracle(s) ==
  {[type |-> "price_up", good |-> "compute", market |-> "us-west",
    accuracy |-> 700 + (s.player.reputation - 50) * 3, cost |-> ORACLE.baseCost,
    isFree |-> f] : f \in BOOLEAN}

---------------------------------------------------------------------------
(* The copy processAction works on.                                        *)

\* Faulty variant of deepClone: a spread copy, {...obj}, whose fields are the
\* very objects the original holds.
shallowClone(obj) ==
  [copy |-> obj, shared |-> DOMAIN obj]

\* deepClone(obj) = JSON.parse(JSON.stringify(obj)): the copy, and the fields
\* of the copy that are the very objects the original holds.  The state is
\* plain data (numbers, strings, booleans, null, arrays and objects of
\* these), which the round trip reproduces, and JSON.parse builds every
\* object anew: no field is shared.
deepClone(obj) ==
  [copy |-> obj, shared |-> {}]

\* The object the caller passed to processAction, as it is once the call has
\* returned outcome: the handlers write to the copy only, so a field of the
\* caller's object changes only if the copy shares it.
passedState(s, outcome) ==
  LET shared == deepClone(s).shared IN
  [k \in DOMAIN s |->
     IF k \in shared /\ k \in DOMAIN outcome.state THEN outcome.state[k] ELSE s[k]]

---------------------------------------------------------------------------
(* Action processing.                                                      *)

\* The response of one processAction call, without its display strings,
\* priceChanges and oracleMessage; response.state is the next `state`.
\* turnAdvanced, atRiskGoods and destination are keys only some returns set.
NewResponse ==
  [success |-> FALSE,
   error |-> "null",
   events |-> <<>>,
   milestonesAchieved |-> <<>>,
   netWorth |-> 0,
   choiceEvent |-> null,
   choiceResult |-> null,
   seizures |-> <<>>]

\* What the switch of processAction leaves: [state, response, returned,
\* shouldAdvanceTurn, used].  returned marks an early `return response`.
\* an early return with an error
Reject(s, error) ==
  [state |-> s, response |-> [NewResponse EXCEPT !.error = error],
   returned |-> TRUE, shouldAdvanceTurn |-> FALSE, used |-> 0]

\* the switch falls through to the tail of processAction
Proceed(s, resp, shouldAdvanceTurn, used) ==
  [state |-> s, response |-> resp,
   returned |-> FALSE, shouldAdvanceTurn |-> shouldAdvanceTurn, used |-> used]

\* Faulty variant of applyInterest: interest is charged at the base rate
\* whatever the debt ratio.
applyInterestAtBaseRate(s) ==
  IF s.player.debt > 0
    THEN LET interestRate == CONFIG.debtBaseInterestRate
             interest == RoundDiv(s.player.debt * interestRate, 100)
         IN [s EXCEPT !.player.debt = @ + interest, !.player.debtInterestRate = interestRate]
    ELSE s

\* Apply debt interest
applyInterest(s) ==
  IF s.player.debt > 0
    THEN LET interestRate == getDebtInterestRate(s)
             interest == RoundDiv(s.player.debt * interestRate, 100)
         IN [s EXCEPT !.player.debt = @ + interest, !.player.debtInterestRate = interestRate]
    ELSE s

\* Clear expired opportunity events: keep e while turn - (e.turn || turn) < 3
pruneEvents(s) ==
  [s EXCEPT !.pendingEvents =
     SelectSeq(@, LAMBDA e : IF "turn" \in DOMAIN e /\ e.turn # 0
                               THEN s.turn - e.turn < 3 ELSE TRUE)]

\* the turn-advancing part of processAction, after the milestone check:
\* the set of [state, events, used] it can end in with at most n happenings
advanceTurn(s, n) ==
  LET indebted == applyInterest(s) IN
  UNION {
    LET shocked == applyEvents(indebted, events) IN
    UNION {
      LET priced == updatePrices(shocked, pd.change, pd.shifts)
          left == n - Len(events) - pd.used
          oracles == {null} \cup (IF left >= 1 THEN rollForOracle(priced) ELSE {})
      IN {[state |->
             pruneEvents([checkGameOver(IF oracle = null THEN priced
                                        ELSE [priced EXCEPT !.oraclePrediction = oracle])
                            EXCEPT !.turn = @ + 1]),
           events |-> events,
           used |-> Len(events) + pd.used + (IF oracle = null THEN 0 ELSE 1)] :
            oracle \in oracles} :
      pd \in PriceDraws(n - Len(events))} :
    events \in rollForEvents(indebted, FALSE, "null", n)}

\* Faulty variant of finish: the turn advances after every successful action.
finishAdvancing(p, n) ==
  {[state |-> [checkMilestones(p.state).state EXCEPT !.turn = @ + 1],
    response |-> SetKey([p.response EXCEPT !.success = TRUE], "turnAdvanced", TRUE),
    used |-> p.used]}

\* Faulty variant of finish: milestones are checked on turn advances only.
finishCheckingOnAdvance(p, n) ==
  LET checked == IF p.shouldAdvanceTurn THEN checkMilestones(p.state)
                 ELSE [state |-> p.state, achieved |-> <<>>]
      ends == IF p.shouldAdvanceTurn
                THEN advanceTurn(checked.state, n - p.used)
                ELSE {[state |-> checked.state, events |-> <<>>, used |-> 0]}
  IN {[state |-> e.state,
       response |->
         SetKey([p.response EXCEPT !.success = TRUE,
                                   !.events = @ \o e.events,
                                   !.milestonesAchieved = checked.achieved,
                                   !.netWorth = calculateNetWorth(e.state)],
                "turnAdvanced", p.shouldAdvanceTurn),
       used |-> p.used + e.used] : e \in ends}

\* the tail of processAction, reached by every action that did not return
\* early: success, milestones, then the turn advance when shouldAdvanceTurn.
\* The set of [state, response, used] it can end in with at most n happenings.
finish(p, n) ==
  LET checked == checkMilestones(p.state)
      ends == IF p.shouldAdvanceTurn
                THEN advanceTurn(checked.state, n - p.used)
                ELSE {[state |-> checked.state, events |-> <<>>, used |-> 0]}
  IN {[state |-> e.state,
       response |->
         SetKey([p.response EXCEPT !.success = TRUE,
                                   !.events = @ \o e.events,
                                   !.milestonesAchieved = checked.achieved,
                                   !.netWorth = calculateNetWorth(e.state)],
                "turnAdvanced", p.shouldAdvanceTurn),
       used |-> p.used + e.used] : e \in ends}

\* Faulty variant of processBuy: goodsTraded counts the trade, not its units.
processBuyCountingTrades(s, good, quantity) ==
  LET market == s.markets[s.player.location] IN
  IF good \notin Goods THEN {Reject(s, "Invalid good")}
  ELSE IF quantity <= 0 THEN {Reject(s, "Quantity must be greater than 0")}
  ELSE IF Includes(market.restricted, good) THEN {Reject(s, "is restricted in this market")}
  ELSE
    LET price == market.prices[good]
        i == FindEvent(s.pendingEvents, "discount_buy", good)
        finalPrice == IF i # 0 THEN RoundDiv(price * (100 - s.pendingEvents[i].percent), 100)
                      ELSE price
        \* the discount is consumed before the funds and cargo checks
        used == IF i # 0 THEN [s EXCEPT !.pendingEvents = RemoveAt(@, i)] ELSE s
        totalCost == finalPrice * quantity
        inventoryUsed == calculateInventoryUsed(s.player.inventory)
    IN IF totalCost > s.player.balance THEN {Reject(used, "Insufficient funds")}
       ELSE IF inventoryUsed + quantity > s.player.inventoryCapacity
         THEN {Reject(used, "Insufficient cargo space")}
       ELSE {Proceed([used EXCEPT
                      !.player.balance = @ - totalCost,
                      !.player.inventory = Put(@, good, Get(@, good) + quantity),
                      !.player.costBasis =
                         Put(@, good, FracAddInt(IF good \in DOMAIN @ THEN @[good] ELSE FracInt(0),
                                                 totalCost)),
                      !.stats.totalTrades = @ + 1,
                      !.stats.goodsTraded = @ + 1],
                   NewResponse, FALSE, 0)}

\* Faulty variant of processBuy: the funds check is missing.
processBuyOnCredit(s, good, quantity) ==
  LET market == s.markets[s.player.location] IN
  IF good \notin Goods THEN {Reject(s, "Invalid good")}
  ELSE IF quantity <= 0 THEN {Reject(s, "Quantity must be greater than 0")}
  ELSE IF Includes(market.restricted, good) THEN {Reject(s, "is restricted in this market")}
  ELSE
    LET price == market.prices[good]
        i == FindEvent(s.pendingEvents, "discount_buy", good)
        finalPrice == IF i # 0 THEN RoundDiv(price * (100 - s.pendingEvents[i].percent), 100)
                      ELSE price
        \* the discount is consumed before the funds and cargo checks
        used == IF i # 0 THEN [s EXCEPT !.pendingEvents = RemoveAt(@, i)] ELSE s
        totalCost == finalPrice * quantity
        inventoryUsed == calculateInventoryUsed(s.player.inventory)
    IN IF inventoryUsed + quantity > s.player.inventoryCapacity
         THEN {Reject(used, "Insufficient cargo space")}
       ELSE {Proceed([used EXCEPT
                      !.player.balance = @ - totalCost,
                      !.player.inventory = Put(@, good, Get(@, good) + quantity),
                      !.player.costBasis =
                         Put(@, good, FracAddInt(IF good \in DOMAIN @ THEN @[good] ELSE FracInt(0),
                                                 totalCost)),
                      !.stats.totalTrades = @ + 1,
                      !.stats.goodsTraded = @ + quantity],
                   NewResponse, FALSE, 0)}

\* Faulty variant of processBuy: the restriction is read from the market's
\* restrictedGoods.
processBuyByCustomsList(s, good, quantity) ==
  LET market == s.markets[s.player.location] IN
  IF good \notin Goods THEN {Reject(s, "Invalid good")}
  ELSE IF quantity <= 0 THEN {Reject(s, "Quantity must be greater than 0")}
  ELSE IF good \in DOMAIN MARKETS[s.player.location].restrictedGoods
    THEN {Reject(s, "is restricted in this market")}
  ELSE
    LET price == market.prices[good]
        i == FindEvent(s.pendingEvents, "discount_buy", good)
        finalPrice == IF i # 0 THEN RoundDiv(price * (100 - s.pendingEvents[i].percent), 100)
                      ELSE price
        \* the discount is consumed before the funds and cargo checks
        used == IF i # 0 THEN [s EXCEPT !.pendingEvents = RemoveAt(@, i)] ELSE s
        totalCost == finalPrice * quantity
        inventoryUsed == calculateInventoryUsed(s.player.inventory)
    IN IF totalCost > s.player.balance THEN {Reject(used, "Insufficient funds")}
       ELSE IF inventoryUsed + quantity > s.player.inventoryCapacity
         THEN {Reject(used, "Insufficient cargo space")}
       ELSE {Proceed([used EXCEPT
                      !.player.balance = @ - totalCost,
                      !.player.inventory = Put(@, good, Get(@, good) + quantity),
                      !.player.costBasis =
                         Put(@, good, FracAddInt(IF good \in DOMAIN @ THEN @[good] ELSE FracInt(0),
                                                 totalCost)),
                      !.stats.totalTrades = @ + 1,
                      !.stats.goodsTraded = @ + quantity],
                   NewResponse, FALSE, 0)}

processBuy(s, good, quantity) ==
  LET market == s.markets[s.player.location] IN
  IF good \notin Goods THEN {Reject(s, "Invalid good")}
  ELSE IF quantity <= 0 THEN {Reject(s, "Quantity must be greater than 0")}
  ELSE IF Includes(market.restricted, good) THEN {Reject(s, "is restricted in this market")}
  ELSE
    LET price == market.prices[good]
        i == FindEvent(s.pendingEvents, "discount_buy", good)
        finalPrice == IF i # 0 THEN RoundDiv(price * (100 - s.pendingEvents[i].percent), 100)
                      ELSE price
        \* the discount is consumed before the funds and cargo checks
        used == IF i # 0 THEN [s EXCEPT !.pendingEvents = RemoveAt(@, i)] ELSE s
        totalCost == finalPrice * quantity
        inventoryUsed == calculateInventoryUsed(s.player.inventory)
    IN IF totalCost > s.player.balance THEN {Reject(used, "Insufficient funds")}
       ELSE IF inventoryUsed + quantity > s.player.inventoryCapacity
         THEN {Reject(used, "Insufficient cargo space")}
       ELSE {Proceed([used EXCEPT
                      !.player.balance = @ - totalCost,
                      !.player.inventory = Put(@, good, Get(@, good) + quantity),
                      !.player.costBasis =
                         Put(@, good, FracAddInt(IF good \in DOMAIN @ THEN @[good] ELSE FracInt(0),
                                                 totalCost)),
                      !.stats.totalTrades = @ + 1,
                      !.stats.goodsTraded = @ + quantity],
                   NewResponse, FALSE, 0)}

\* Faulty variant of processSell: the costBasis key outlives the last unit.
processSellKeepingBasis(s, good, quantity) ==
  LET market == s.markets[s.player.location] IN
  IF good \notin Goods THEN {Reject(s, "Invalid good")}
  ELSE IF quantity <= 0 THEN {Reject(s, "Quantity must be greater than 0")}
  ELSE IF Includes(market.restricted, good) THEN {Reject(s, "is restricted in this market")}
  ELSE
    LET owned == Get(s.player.inventory, good) IN
    IF quantity > owned THEN {Reject(s, "Insufficient inventory")}
    ELSE
      LET i == FindEvent(s.pendingEvents, "premium_sell", good)
          price == IF i # 0
                     THEN RoundDiv(market.prices[good] * (100 + s.pendingEvents[i].percent), 100)
                     ELSE market.prices[good]
          used == IF i # 0 THEN [s EXCEPT !.pendingEvents = RemoveAt(@, i)] ELSE s
          totalRevenue == price * quantity
          currentCostBasis == IF good \in DOMAIN s.player.costBasis
                                THEN s.player.costBasis[good] ELSE FracInt(0)
          \* currentCostBasis - (quantity / owned) * currentCostBasis
          reduced == FracScale(currentCostBasis, owned - quantity, owned)
      IN {Proceed([used EXCEPT
                   !.player.balance = @ + totalRevenue,
                   !.player.inventory = IF owned - quantity = 0 THEN Delete(@, good)
                                        ELSE Put(@, good, owned - quantity),
                   !.player.costBasis = Put(@, good, reduced),
                   !.stats.totalTrades = @ + 1,
                   !.stats.goodsTraded = @ + quantity],
                NewResponse, FALSE, 0)}

processSell(s, good, quantity) ==
  LET market == s.markets[s.player.location] IN
  IF good \notin Goods THEN {Reject(s, "Invalid good")}
  ELSE IF quantity <= 0 THEN {Reject(s, "Quantity must be greater than 0")}
  ELSE IF Includes(market.restricted, good) THEN {Reject(s, "is restricted in this market")}
  ELSE
    LET owned == Get(s.player.inventory, good) IN
    IF quantity > owned THEN {Reject(s, "Insufficient inventory")}
    ELSE
      LET i == FindEvent(s.pendingEvents, "premium_sell", good)
          price == IF i # 0
                     THEN RoundDiv(market.prices[good] * (100 + s.pendingEvents[i].percent), 100)
                     ELSE market.prices[good]
          used == IF i # 0 THEN [s EXCEPT !.pendingEvents = RemoveAt(@, i)] ELSE s
          totalRevenue == price * quantity
          currentCostBasis == IF good \in DOMAIN s.player.costBasis
                                THEN s.player.costBasis[good] ELSE FracInt(0)
          \* currentCostBasis - (quantity / owned) * currentCostBasis
          reduced == FracScale(currentCostBasis, owned - quantity, owned)
      IN {Proceed([used EXCEPT
                   !.player.balance = @ + totalRevenue,
                   !.player.inventory = IF owned - quantity = 0 THEN Delete(@, good)
                                        ELSE Put(@, good, owned - quantity),
                   !.player.costBasis = IF owned - quantity = 0 THEN Delete(@, good)
                                        ELSE Put(@, good, reduced),
                   !.stats.totalTrades = @ + 1,
                   !.stats.goodsTraded = @ + quantity],
                NewResponse, FALSE, 0)}

\* seizure check, travel events and arrival, shared by travel and
\* resolveChoice: the set of [state, seized, events, used]
arrive(s, destination, n) ==
  LET draws == IF HasKey(s, "_smuggledThisTrip") THEN {<<>>}
               ELSE SeizureDraws(s, destination, n)
  IN UNION {
       LET checked == checkSeizureRisk(s, destination, d)
           used == IF HasKey(s, "_smuggledThisTrip") THEN 0 ELSE SeizureUsed(d)
       IN {[state |->
              LET shocked == applyEvents(checked.state, travelEvents) IN
              [shocked EXCEPT
                 !.player.location = destination,
                 !.stats.marketsVisited = IF Includes(@, destination) THEN @
                                          ELSE Append(@, destination)],
            seized |-> checked.seized,
            events |-> travelEvents,
            used |-> used + Len(travelEvents)] :
             travelEvents \in rollForEvents(checked.state, TRUE, destination, n - used)} :
       d \in draws}

\* Faulty variant of processTravel: a travel that raises a choice event
\* arrives before the choice is resolved.
processTravelArriving(s, destination, confirmed, n) ==
  IF destination \notin Markets THEN {Reject(s, "Invalid destination")}
  ELSE IF destination = s.player.location THEN {Reject(s, "Already at this location")}
  ELSE {[state |-> SetKey([s EXCEPT !.pendingChoice = choiceEvent,
                                    !.player.location = destination],
                          "_pendingDestination", destination),
         response |-> [NewResponse EXCEPT !.choiceEvent = choiceEvent, !.success = TRUE],
         returned |-> TRUE, shouldAdvanceTurn |-> FALSE, used |-> 1] :
          choiceEvent \in IF n >= 1 THEN rollForTravelChoice(s, destination) ELSE {}}
       \cup {Proceed([s EXCEPT !.player.location = destination], NewResponse, TRUE, 0)}

processTravel(s, destination, confirmed, n) ==
  IF destination \notin Markets THEN {Reject(s, "Invalid destination")}
  ELSE IF destination = s.player.location THEN {Reject(s, "Already at this location")}
  ELSE
    LET atRiskGoods == getAtRiskGoods(s, destination) IN
    IF Len(atRiskGoods) > 0 /\ ~confirmed
      THEN {[state |-> s,
             response |-> SetKey(SetKey([NewResponse EXCEPT !.error = "CONFIRM_RISK"],
                                        "atRiskGoods", atRiskGoods),
                                 "destination", destination),
             returned |-> TRUE, shouldAdvanceTurn |-> FALSE, used |-> 0]}
      ELSE
        \* a choice event returns early: no milestone check, no turn advance
        {[state |-> SetKey([s EXCEPT !.pendingChoice = choiceEvent],
                           "_pendingDestination", destination),
          response |-> [NewResponse EXCEPT
                          !.choiceEvent = choiceEvent,
                          !.success = TRUE,
                          !.netWorth = calculateNetWorth(s)],
          returned |-> TRUE, shouldAdvanceTurn |-> FALSE, used |-> 1] :
           choiceEvent \in IF n >= 1 THEN rollForTravelChoice(s, destination) ELSE {}}
        \cup
        {Proceed(a.state, [NewResponse EXCEPT !.seizures = a.seized, !.events = a.events],
                 TRUE, a.used) :
           a \in arrive(s, destination, n)}

processResolveChoice(s, choiceId, n) ==
  IF s.pendingChoice = null THEN {Reject(s, "No pending choice to resolve")}
  ELSE
    UNION {
      LET resolved == resolveChoiceEvent(s, choiceId, d)
          resp == [NewResponse EXCEPT !.choiceResult = resolved.result]
      IN IF HasKey(resolved.state, "_pendingDestination")
           THEN LET destination == resolved.state["_pendingDestination"] IN
                {Proceed(a.state, [resp EXCEPT !.seizures = a.seized, !.events = a.events],
                         TRUE, a.used) :
                   a \in arrive(DeleteKey(resolved.state, "_pendingDestination"),
                                destination, n)}
           ELSE {Proceed(resolved.state, resp, FALSE, 0)} :
      d \in ResolveDraws}

\* Faulty variant of processWait: wait does not ask for the turn to advance.
processWaitStill(s) == {Proceed(s, NewResponse, FALSE, 0)}

processWait(s) == {Proceed(s, NewResponse, TRUE, 0)}

processBorrow(s, amount) ==
  IF amount <= 0 THEN {Reject(s, "Amount must be greater than 0")}
  ELSE IF amount > getMaxBorrowable(s) THEN {Reject(s, "Can only borrow up to")}
  ELSE {Proceed([s EXCEPT !.player.balance = @ + amount,
                        !.player.debt = @ + amount,
                        !.stats.hadDebt = TRUE],
              NewResponse, FALSE, 0)}

\* Faulty variant of processPayDebt: the balance is not checked.
processPayDebtUnfunded(s, amount) ==
  IF amount <= 0 THEN {Reject(s, "Amount must be greater than 0")}
  ELSE IF amount > s.player.debt THEN {Reject(s, "Debt is only")}
  ELSE {Proceed([s EXCEPT !.player.balance = @ - amount, !.player.debt = @ - amount],
              NewResponse, FALSE, 0)}

processPayDebt(s, amount) ==
  IF amount <= 0 THEN {Reject(s, "Amount must be greater than 0")}
  ELSE IF amount > s.player.balance THEN {Reject(s, "Insufficient funds")}
  ELSE IF amount > s.player.debt THEN {Reject(s, "Debt is only")}
  ELSE {Proceed([s EXCEPT !.player.balance = @ - amount, !.player.debt = @ - amount],
              NewResponse, FALSE, 0)}

\* case 'upgrade' without the already-purchased gate
processUpgradeAgain(s, upgradeId) ==
  IF upgradeId \notin Upgrades THEN {Reject(s, "Invalid upgrade")}
  ELSE
    LET upgrade == UPGRADES[upgradeId] IN
    IF upgrade.prerequisite # NoId /\ ~Includes(s.purchasedUpgrades, upgrade.prerequisite)
      THEN {Reject(s, "Requires prerequisite first")}
    ELSE IF upgrade.unlockedByMilestone # NoId /\ ~s.milestones[upgrade.unlockedByMilestone].achieved
      THEN {Reject(s, "Locked. Requires milestone")}
    ELSE IF upgrade.cost > s.player.balance THEN {Reject(s, "Insufficient funds")}
    ELSE {Proceed([s EXCEPT
                   !.player.balance = @ - upgrade.cost,
                   !.purchasedUpgrades = Append(@, upgradeId),
                   !.player.inventoryCapacity =
                      IF upgrade.effect.type = "inventory" THEN @ + upgrade.effect.value ELSE @,
                   !.player.reputation =
                      IF upgrade.effect.type = "reputation" THEN @ + upgrade.effect.value ELSE @],
                NewResponse, FALSE, 0)}

\* case 'upgrade' without the prerequisite gate
processUpgradeSkippingPrerequisite(s, upgradeId) ==
  IF upgradeId \notin Upgrades THEN {Reject(s, "Invalid upgrade")}
  ELSE
    LET upgrade == UPGRADES[upgradeId] IN
    IF Includes(s.purchasedUpgrades, upgradeId) THEN {Reject(s, "Already purchased this upgrade")}
    ELSE IF upgrade.unlockedByMilestone # NoId /\ ~s.milestones[upgrade.unlockedByMilestone].achieved
      THEN {Reject(s, "Locked. Requires milestone")}
    ELSE IF upgrade.cost > s.player.balance THEN {Reject(s, "Insufficient funds")}
    ELSE {Proceed([s EXCEPT
                   !.player.balance = @ - upgrade.cost,
                   !.purchasedUpgrades = Append(@, upgradeId),
                   !.player.inventoryCapacity =
                      IF upgrade.effect.type = "inventory" THEN @ + upgrade.effect.value ELSE @,
                   !.player.reputation =
                      IF upgrade.effect.type = "reputation" THEN @ + upgrade.effect.value ELSE @],
                NewResponse, FALSE, 0)}

processUpgrade(s, upgradeId) ==
  IF upgradeId \notin Upgrades THEN {Reject(s, "Invalid upgrade")}
  ELSE
    LET upgrade == UPGRADES[upgradeId] IN
    IF Includes(s.purchasedUpgrades, upgradeId) THEN {Reject(s, "Already purchased this upgrade")}
    ELSE IF upgrade.prerequisite # NoId /\ ~Includes(s.purchasedUpgrades, upgrade.prerequisite)
      THEN {Reject(s, "Requires prerequisite first")}
    ELSE IF upgrade.unlockedByMilestone # NoId /\ ~s.milestones[upgrade.unlockedByMilestone].achieved
      THEN {Reject(s, "Locked. Requires milestone")}
    ELSE IF upgrade.cost > s.player.balance THEN {Reject(s, "Insufficient funds")}
    ELSE {Proceed([s EXCEPT
                   !.player.balance = @ - upgrade.cost,
                   !.purchasedUpgrades = Append(@, upgradeId),
                   !.player.inventoryCapacity =
                      IF upgrade.effect.type = "inventory" THEN @ + upgrade.effect.value ELSE @,
                   !.player.reputation =
                      IF upgrade.effect.type = "reputation" THEN @ + upgrade.effect.value ELSE @],
                NewResponse, FALSE, 0)}

\* the switch on action.action: what each case leaves
switch(s, action, n) ==
  CASE action.action = "buy" -> processBuy(s, action.good, action.quantity)
    [] action.action = "sell" -> processSell(s, action.good, action.quantity)
    [] action.action = "travel" -> processTravel(s, action.destination, action.confirmed, n)
    [] action.action = "resolveChoice" -> processResolveChoice(s, action.choiceId, n)
    [] action.action = "wait" -> processWait(s)
    [] action.action = "borrow" -> processBorrow(s, action.amount)
    [] action.action = "payDebt" -> processPayDebt(s, action.amount)
    [] action.action = "upgrade" -> processUpgrade(s, action.upgradeId)
    [] OTHER -> {Reject(s, "Unknown action")}

\* Faulty variant of processAction: the pending-choice check is missing.
processActionUngated(s, action, n) ==
  IF s.gameOver
    THEN {[state |-> s,
           response |-> [NewResponse EXCEPT !.error = "Game is over. Start a new game."],
           used |-> 0]}
    ELSE UNION {IF p.returned
                  THEN {[state |-> p.state, response |-> p.response, used |-> p.used]}
                  ELSE finish(p, n) :
                p \in switch(s, action, n)}

\* Faulty variant of processAction: the game-over check is missing.
processActionUnended(s, action, n) ==
  IF s.pendingChoice # null /\ action.action # "resolveChoice"
    THEN {[state |-> s,
           response |-> [NewResponse EXCEPT !.error = "You must resolve the current choice first.",
                                            !.choiceEvent = s.pendingChoice],
           used |-> 0]}
    ELSE UNION {IF p.returned
                  THEN {[state |-> p.state, response |-> p.response, used |-> p.used]}
                  ELSE finish(p, n) :
                p \in switch(s, action, n)}

\* The outcomes of processAction(state, action) with at most n happenings:
\* the set of [state, response, used].  action is [action, ...parameters].
processAction(given, action, n) ==
  LET s == deepClone(given).copy IN
  IF s.gameOver
    THEN {[state |-> s,
           response |-> [NewResponse EXCEPT !.error = "Game is over. Start a new game.",
                                            !.netWorth = calculateNetWorth(s)],
           used |-> 0]}
  ELSE IF s.pendingChoice # null /\ action.action # "resolveChoice"
    THEN {[state |-> s,
           response |-> [NewResponse EXCEPT !.error = "You must resolve the current choice first.",
                                            !.choiceEvent = s.pendingChoice],
           used |-> 0]}
  ELSE
    UNION {IF p.returned
             THEN {[state |-> p.state, response |-> p.response, used |-> p.used]}
             ELSE finish(p, n) :
           p \in switch(s, action, n)}

createGame == createInitialState

\* Faulty variant of getAvailableActions: the buys only, each listed up to
\* the cargo capacity, whatever is held.
getAvailableActionsIgnoringCargo(s) ==
  LET market == s.markets[s.player.location]
      buys == [i \in 1..Len(GoodIds) |->
                 [action |-> "buy", good |-> GoodIds[i],
                  maxQuantity |-> Min(FloorDiv(s.player.balance, market.prices[GoodIds[i]]),
                                      s.player.inventoryCapacity)]]
  IN SelectSeq(buys, LAMBDA a : ~Includes(market.restricted, a.good) /\ a.maxQuantity > 0)

\* getAvailableActions(state): the list of actions it returns.  The sell
\* entries follow Object.entries(inventory), taken here in GOODS order.
getAvailableActions(s) ==
  LET market == s.markets[s.player.location]
      inventoryUsed == calculateInventoryUsed(s.player.inventory)
      buys == [i \in 1..Len(GoodIds) |->
                 [action |-> "buy", good |-> GoodIds[i],
                  maxQuantity |-> Min(FloorDiv(s.player.balance, market.prices[GoodIds[i]]),
                                      s.player.inventoryCapacity - inventoryUsed)]]
      sells == [i \in 1..Len(GoodIds) |->
                  [action |-> "sell", good |-> GoodIds[i],
                   maxQuantity |-> Get(s.player.inventory, GoodIds[i])]]
      travels == [i \in 1..Len(MarketIds) |->
                    [action |-> "travel", destination |-> MarketIds[i]]]
      maxBorrow == getMaxBorrowable(s)
      upgrades == [i \in 1..Len(UpgradeIds) |->
                     [action |-> "upgrade", upgradeId |-> UpgradeIds[i],
                      cost |-> UPGRADES[UpgradeIds[i]].cost,
                      canAfford |-> s.player.balance >= UPGRADES[UpgradeIds[i]].cost]]
  IN SelectSeq(buys, LAMBDA a : ~Includes(market.restricted, a.good) /\ a.maxQuantity > 0)
     \o SelectSeq(sells, LAMBDA a : /\ a.good \in DOMAIN s.player.inventory
                                    /\ ~Includes(market.restricted, a.good)
                                    /\ a.maxQuantity > 0)
     \o (IF HasKey(s, "travelingTo") THEN <<>>
         ELSE SelectSeq(travels, LAMBDA a : a.destination # s.player.location))
     \o <<[action |-> "wait"]>>
     \o (IF maxBorrow > 0 THEN <<[action |-> "borrow", maxAmount |-> maxBorrow]>> ELSE <<>>)
     \o (IF s.player.debt > 0 /\ s.player.balance > 0
           THEN <<[action |-> "payDebt", maxAmount |-> Min(s.player.balance, s.player.debt)]>>
           ELSE <<>>)
     \o SelectSeq(upgrades,
                  LAMBDA a :
                    LET upgrade == UPGRADES[a.upgradeId] IN
                    /\ ~Includes(s.purchasedUpgrades, a.upgradeId)
                    /\ upgrade.prerequisite = NoId
                         \/ Includes(s.purchasedUpgrades, upgrade.prerequisite)
                    /\ upgrade.unlockedByMilestone = NoId
                         \/ s.milestones[upgrade.unlockedByMilestone].achieved)

---------------------------------------------------------------------------
(* Save data.  A JavaScript value the validator inspects is a record with   *)
(* its typeof in `type` and its content in `value`; the fields of the state *)
(* that the validator never reads are carried as they are in the state.     *)

undefined == [type |-> "undefined"]
Str(x) == [type |-> "string", value |-> x]
Num(x) == [type |-> "number", value |-> x]
Obj(x) == [type |-> "object", value |-> x]

\* typeof v
typeof(v) == IF v = null THEN "object" ELSE v.type

\* !v
Falsy(v) ==
  CASE v.type \in {"undefined", "null"} -> TRUE
    [] v.type = "string" -> v.value = ""
    [] v.type = "number" -> v.value = 0
    [] v.type = "boolean" -> ~v.value
    [] OTHER -> FALSE

\* v[key], for a v that is neither null nor undefined
Prop(v, key) ==
  IF v.type = "object" /\ key \in DOMAIN v.value THEN v.value[key] ELSE undefined

\* the fields of the player and of the state that the validator reads
PlayerFields == [balance |-> "number", location |-> "string", inventory |-> "object"]
StateFields == [markets |-> "object", turn |-> "number"]

SAVE_VERSION == "1.0"

\* the state as a JavaScript value
StateValue(s) ==
  Obj([k \in DOMAIN s |->
         IF k = "player"
           THEN Obj([j \in DOMAIN s.player |->
                       IF j \in DOMAIN PlayerFields
                         THEN [type |-> PlayerFields[j], value |-> s.player[j]]
                         ELSE s.player[j]])
         ELSE IF k \in DOMAIN StateFields THEN [type |-> StateFields[k], value |-> s[k]]
         ELSE s[k]])

\* the state a JavaScript value made by StateValue stands for
StateOf(v) ==
  [k \in DOMAIN v.value |->
     IF k = "player"
       THEN [j \in DOMAIN v.value.player.value |->
               IF j \in DOMAIN PlayerFields THEN v.value.player.value[j].value
               ELSE v.value.player.value[j]]
     ELSE IF k \in DOMAIN StateFields THEN v.value[k].value
     ELSE v.value[k]]

\* savedAt is new Date().toISOString(): some string
createSaveData(s, eventLog) ==
  Obj([version |-> Str(SAVE_VERSION),
       state |-> StateValue(s),
       eventLog |-> Obj(eventLog),
       savedAt |-> Str("savedAt")])

\* JSON.parse(JSON.stringify(n)) for a number held as a fraction: a finite
\* number comes back as it was, any other as null
JSONNumber(f) == IF f.d = 0 THEN null ELSE f

\* the keys of an object that JSON.stringify writes, among those that hold
\* JavaScript values: a key whose value is undefined is left out
Written(obj, fields) ==
  {k \in DOMAIN obj : ~(k \in fields /\ obj[k] = undefined)}

\* JSON.parse(JSON.stringify(saveData)) for a saveData made by createSaveData
JSONRoundTrip(saveData) ==
  LET top == saveData.value
      st == top.state.value
      player == st.player.value
  IN Obj([k \in Written(top, DOMAIN top) |->
            IF k # "state" THEN top[k]
            ELSE Obj([i \in Written(st, DOMAIN StateFields \cup {"player"}) |->
                        IF i # "player" THEN st[i]
                        ELSE Obj([j \in Written(player, DOMAIN PlayerFields) |->
                                    IF j # "costBasis" THEN player[j]
                                    ELSE [g \in DOMAIN player[j] |->
                                            JSONNumber(player[j][g])]])])])

\* the errors validateSaveData collects for a state that is there
StateErrors(st) ==
  LET player == Prop(st, "player") IN
  (IF Falsy(player) THEN <<"Missing player in state">>
   ELSE (IF typeof(Prop(player, "balance")) # "number"
           THEN <<"Invalid or missing player.balance">> ELSE <<>>)
        \o (IF typeof(Prop(player, "location")) # "string"
              THEN <<"Invalid or missing player.location">> ELSE <<>>)
        \o (IF Falsy(Prop(player, "inventory")) \/ typeof(Prop(player, "inventory")) # "object"
              THEN <<"Invalid or missing player.inventory">> ELSE <<>>))
  \o (IF Falsy(Prop(st, "markets")) \/ typeof(Prop(st, "markets")) # "object"
        THEN <<"Invalid or missing markets">> ELSE <<>>)
  \o (IF typeof(Prop(st, "turn")) # "number" THEN <<"Invalid or missing turn">> ELSE <<>>)

\* Faulty variant of validateSaveData: a state that is not an object passes.
validateSaveDataTrustingState(saveData) ==
  IF Falsy(saveData) \/ typeof(saveData) # "object"
    THEN [valid |-> FALSE, errors |-> <<"Save data must be an object">>]
  ELSE
    LET errors ==
          (IF Falsy(Prop(saveData, "version")) THEN <<"Missing version field">> ELSE <<>>)
          \o (IF Falsy(Prop(saveData, "state")) THEN <<"Missing state field">>
              ELSE IF typeof(Prop(saveData, "state")) # "object" THEN <<>>
              ELSE StateErrors(Prop(saveData, "state")))
    IN [valid |-> Len(errors) = 0, errors |-> errors]

validateSaveData(saveData) ==
  IF Falsy(saveData) \/ typeof(saveData) # "object"
    THEN [valid |-> FALSE, errors |-> <<"Save data must be an object">>]
  ELSE
    LET errors ==
          (IF Falsy(Prop(saveData, "version")) THEN <<"Missing version field">> ELSE <<>>)
          \o (IF Falsy(Prop(saveData, "state")) THEN <<"Missing state field">>
              ELSE StateErrors(Prop(saveData, "state")))
    IN [valid |-> Len(errors) = 0, errors |-> errors]

---------------------------------------------------------------------------
(* The session: createGame(), then any sequence of submitAction calls,     *)
(* each on the state the previous one returned.                            *)

\* the ids the caller submits: some real ones and an unknown one
GoodInputs == TradedGoods \cup {"bogus"}
MarketInputs == {"us-west", "eu-central", "bogus"}
UpgradeInputs == {"cargo_1", "cargo_2", "insurance", "bogus"}
ChoiceInputs == {"accept", "decline", "gamble", "enter", "buy", "use_smuggler", "bogus"}

\* the turn a survivor can first be: MILESTONES.survivor.condition.value
LateTurn == MILESTONES["survivor"].condition.value

\* how far a session observed from state s on is followed: to turn
\* s.turn + MaxTurn - 1, and to the given number of trades and happenings,
\* with the upgrade ids the caller submits
LimitsFrom(s, trades, debt) ==
  [turn |-> s.turn + MaxTurn - 1, trades |-> s.stats.totalTrades + trades,
   debt |-> s.player.debt + debt, upgrades |-> UpgradeInputs]

\* the happenings the random source may still produce in this call
Budget(action) ==
  IF action.action \in {"travel", "wait"} /\ state.turn >= limits.turn THEN 0
  ELSE Min(MaxRolls - rolls, limits.trades - state.stats.totalTrades - rolls)

\* a call is explored unless it is a successful one past a bound
WithinBounds(action, outcome) ==
  outcome.response.success =>
    /\ action.action \in {"travel", "wait"} => state.turn < limits.turn
    /\ action.action \in {"buy", "sell"} => state.stats.totalTrades + rolls < limits.trades
    /\ action.action = "borrow" => state.player.debt < limits.debt

\* the outcomes of submitAction(state, action) that are explored
Outcomes(action) ==
  {outcome \in processAction(state, action, Budget(action)) : WithinBounds(action, outcome)}

\* the calls a session submits
Calls ==
  {[action |-> "buy", good |-> good, quantity |-> quantity] :
     good \in GoodInputs, quantity \in Quantities}
    \cup {[action |-> "sell", good |-> good, quantity |-> quantity] :
            good \in GoodInputs, quantity \in Quantities}
    \cup {[action |-> "travel", destination |-> destination, confirmed |-> confirmed] :
            destination \in MarketInputs, confirmed \in BOOLEAN}
    \cup {[action |-> "resolveChoice", choiceId |-> choiceId] : choiceId \in ChoiceInputs}
    \cup {[action |-> "wait"]}
    \cup {[action |-> "borrow", amount |-> amount] : amount \in Amounts}
    \cup {[action |-> "payDebt", amount |-> amount] : amount \in Amounts}
    \cup {[action |-> "upgrade", upgradeId |-> upgradeId] : upgradeId \in UpgradeInputs}
    \cup {[action |-> "unknown"]}

\* what the switch of processAction leaves of the call on the current state:
\* nothing when the game-over or the pending-choice gate returns before it
Effects(action) ==
  IF state.gameOver \/ (state.pendingChoice # null /\ action.action # "resolveChoice")
    THEN {}
    ELSE switch(state, action, Budget(action))

\* submitAction(state, action): one call; the session keeps the state returned
submitAction(action) ==
  \E outcome \in Outcomes(action) :
    /\ state' = outcome.state
    /\ response' = outcome.response
    /\ lastAction' = action.action
    /\ rolls' = rolls + outcome.used
    /\ limits' = limits

Buy ==
  \E good \in GoodInputs, quantity \in Quantities :
    LET action == [action |-> "buy", good |-> good, quantity |-> quantity] IN
    /\ submitAction(action)

Sell ==
  \E good \in GoodInputs, quantity \in Quantities :
    LET action == [action |-> "sell", good |-> good, quantity |-> quantity] IN
    /\ submitAction(action)

Travel ==
  \E destination \in MarketInputs, confirmed \in BOOLEAN :
    LET action == [action |-> "travel", destination |-> destination,
                   confirmed |-> confirmed] IN
    /\ submitAction(action)

ResolveChoice ==
  \E choiceId \in ChoiceInputs :
    LET action == [action |-> "resolveChoice", choiceId |-> choiceId] IN
    /\ submitAction(action)

Wait ==
  LET action == [action |-> "wait"] IN
  /\ submitAction(action)

Borrow ==
  \E amount \in Amounts :
    LET action == [action |-> "borrow", amount |-> amount] IN
    /\ submitAction(action)

PayDebt ==
  \E amount \in Amounts :
    LET action == [action |-> "payDebt", amount |-> amount] IN
    /\ submitAction(action)

Upgrade ==
  \E upgradeId \in limits.upgrades :
    LET action == [action |-> "upgrade", upgradeId |-> upgradeId] IN
    /\ submitAction(action)

\* an action name processAction does not know
Unknown ==
  LET action == [action |-> "unknown"] IN
  /\ submitAction(action)

\* the session starts in state s and is followed for the given number of
\* trades and happenings
StartsIn(s, trades, debt) ==
  /\ state = s
  /\ response = NewResponse
  /\ lastAction = "none"
  /\ rolls = 0
  /\ limits = LimitsFrom(s, trades, debt)

Init == StartsIn(createGame, MaxTrades, MaxDebt)

Next ==
  \/ Buy
  \/ Sell
  \/ Travel
  \/ ResolveChoice
  \/ Wait
  \/ Borrow
  \/ PayDebt
  \/ Upgrade
  \/ Unknown

Spec == Init /\ [][Next]_vars

\* The same session bounded to one trade, with the same borrowing.
InitBrief == StartsIn(createGame, MaxTrades - 1, MaxDebt)

SpecBrief == InitBrief /\ [][Next]_vars

\* The same session with MaxTrades trades and no borrowing.
InitSaver == StartsIn(createGame, MaxTrades, 0)

SpecSaver == InitSaver /\ [][Next]_vars

\* The state the call leads to when every roll misses and every price draw
\* is 0.5.
Quiet(s, action) ==
  (CHOOSE outcome \in processAction(s, action, 0) : TRUE).state

\* The state a wait leads to when a windfall is its one happening.
Windfall(s) ==
  (CHOOSE outcome \in processAction(s, [action |-> "wait"], 1) :
     /\ Len(outcome.response.events) = 1
     /\ outcome.response.events[1].effect = "money_gain").state

\* The state uneventful waits lead to at the given turn.
RECURSIVE Waited(_, _)
Waited(s, turn) ==
  IF s.turn >= turn THEN s
  ELSE Waited(Quiet(s, [action |-> "wait"]), turn)

\* A session observed from turn LateTurn on: the player has waited since
\* createGame() and nothing has happened.
InitLate == StartsIn(Waited(createGame, LateTurn), MaxTrades, MaxDebt)

SpecLate == InitLate /\ [][Next]_vars

\* The same late session bounded to one trade, with the same borrowing.
InitLateBrief == StartsIn(Waited(createGame, LateTurn), MaxTrades - 1, MaxDebt)

SpecLateBrief == InitLateBrief /\ [][Next]_vars

\* The state of a trader who received three windfalls, bought a unit of
\* datasets in us-west, travelled to singapore and bought two more there:
\* three units at a blended cost.
Trader ==
  LET funded == Windfall(Windfall(Windfall(createGame)))
      first == Quiet(funded, [action |-> "buy", good |-> "datasets", quantity |-> 1])
      moved == Quiet(first, [action |-> "travel", destination |-> "singapore",
                             confirmed |-> FALSE])
  IN Quiet(moved, [action |-> "buy", good |-> "datasets", quantity |-> 2])

\* A session observed from that state on, for one trade or happening less
\* and without further borrowing.
InitTrader == StartsIn(Trader, MaxTrades - 1, 0)

SpecTrader == InitTrader /\ [][Next]_vars

\* what the three cargo expansions and the cargo insurance cost together
RichBalance ==
  UPGRADES["cargo_1"].cost + UPGRADES["cargo_2"].cost + UPGRADES["cargo_3"].cost
    + UPGRADES["insurance"].cost

\* The state windfalls lead to, one a turn, once the balance reaches the
\* given amount.
RECURSIVE Funded(_, _)
Funded(s, balance) ==
  IF s.player.balance >= balance THEN s
  ELSE Funded(Windfall(s), balance)

\* A session observed from a rich player's state on, without trades,
\* happenings or borrowing, in which the caller asks for every upgrade.
InitRich ==
  LET s == Funded(createGame, RichBalance) IN
  /\ state = s
  /\ response = NewResponse
  /\ lastAction = "none"
  /\ rolls = 0
  /\ limits = [LimitsFrom(s, 0, 0) EXCEPT !.upgrades = Upgrades \cup {"bogus"}]

SpecRich == InitRich /\ [][Next]_vars

\* The state a wait leads to when a bulk buyer's offer with the given effect
\* is its one happening.
Offered(s, effect) ==
  (CHOOSE outcome \in processAction(s, [action |-> "wait"], 1) :
     /\ Len(outcome.response.events) = 1
     /\ outcome.response.events[1].effect = effect).state

\* The states of a player who received a windfall, then a discount, a premium
\* and another discount on compute, one a turn, and then bought a unit of
\* datasets.
Endowed == Windfall(createGame)

OfferedDiscount == Offered(Endowed, "discount_buy")

OfferedPremium == Offered(OfferedDiscount, "premium_sell")

OfferedAgain == Offered(OfferedPremium, "discount_buy")

Holding == Quiet(OfferedAgain, [action |-> "buy", good |-> "datasets", quantity |-> 1])

\* The state of that player after waiting for three turns more, nothing
\* happening: every offer is three turn advances old or older.
WaitedOnce == Quiet(Holding, [action |-> "wait"])

WaitedTwice == Quiet(WaitedOnce, [action |-> "wait"])

Courted == Quiet(WaitedTwice, [action |-> "wait"])

\* A session observed from that state on, for MaxTrades more trades, without
\* further happenings or borrowing.
InitOffers ==
  /\ state = Courted
  /\ response = NewResponse
  /\ lastAction = "none"
  /\ rolls = MaxRolls
  /\ limits = LimitsFrom(Courted, MaxTrades + MaxRolls, 0)

SpecOffers == InitOffers /\ [][Next]_vars

\* The state of the trader after buying a unit of compute as well: the
\* cargo holds datasets, restricted in eu-central, and compute, restricted
\* nowhere.
Carrier == Quiet(Trader, [action |-> "buy", good |-> "compute", quantity |-> 1])

\* A session observed from that state on, for one trade or happening more
\* and without further borrowing.
InitCarrier == StartsIn(Carrier, MaxTrades - 1, 0)

SpecCarrier == InitCarrier /\ [][Next]_vars

\* The state of a player who received windfalls until a cargo expansion was
\* within reach, borrowed, paid most of it back and bought a unit of
\* compute: goods are held, a debt is owed and an upgrade is affordable.
Debtor ==
  LET funded == Funded(createGame, UPGRADES["cargo_1"].cost)
      owing == Quiet(funded, [action |-> "borrow", amount |-> 20000])
      repaid == Quiet(owing, [action |-> "payDebt", amount |-> 15000])
  IN Quiet(repaid, [action |-> "buy", good |-> "compute", quantity |-> 1])

\* A session observed from that state on, for one trade or happening less
\* and without further borrowing.
InitDebtor == StartsIn(Debtor, MaxTrades - 1, 0)

SpecDebtor == InitDebtor /\ [][Next]_vars

---------------------------------------------------------------------------
(* Properties of processAction.  In a step, `state` is the state the call  *)
(* was given, `state'` the state it returned, `response'` its response and *)
(* `lastAction'` the action it was asked for.                              *)

\* response.turnAdvanced is set and true
TurnAdvanced(r) == HasKey(r, "turnAdvanced") /\ r.turnAdvanced

\* C1: buy, sell, borrow, payDebt and upgrade, accepted or rejected, return a
\* state whose turn is the turn of the state they were given.
C1_TradingKeepsTurn ==
  [][lastAction' \in {"buy", "sell", "borrow", "payDebt", "upgrade"}
       => state'.turn = state.turn]_vars

\* an upgrade was bought after the turn had advanced
C1_UpgradeBought ==
  lastAction = "upgrade" /\ response.success /\ state.turn = 2

C3_PendingChoiceBlocks ==
  [][state.pendingChoice # null /\ lastAction' # "resolveChoice"
       => /\ ~response'.success
          /\ state' = state
          /\ state'.pendingChoice = state.pendingChoice]_vars

\* a buy was rejected because a choice is pending
C3_BuyBlocked ==
  /\ state.pendingChoice # null
  /\ lastAction = "buy"
  /\ ~response.success
  /\ response.error = "You must resolve the current choice first."

\* C4: a travel that raises a choice event returns the event in the response
\* and a state that holds it as pendingChoice and stores the destination;
\* location, turn, inventory, costBasis, balance, debt, prices and
\* marketsVisited are those of the state it was given.
C4_ChoiceSuspendsTravel ==
  [][lastAction' = "travel" /\ response'.success /\ response'.choiceEvent # null
       => /\ state'.pendingChoice = response'.choiceEvent
          /\ HasKey(state', "_pendingDestination")
          /\ state'["_pendingDestination"] = response'.choiceEvent.destination
          /\ state'["_pendingDestination"] \in Markets \ {state.player.location}
          /\ state'.player.location = state.player.location
          /\ state'.turn = state.turn
          /\ state'.player.inventory = state.player.inventory
          /\ state'.player.costBasis = state.player.costBasis
          /\ state'.player.balance = state.player.balance
          /\ state'.player.debt = state.player.debt
          /\ \A m \in Markets : state'.markets[m].prices = state.markets[m].prices
          /\ state'.stats.marketsVisited = state.stats.marketsVisited]_vars

\* a travel raised a choice event
C4_ChoiceRaised ==
  /\ lastAction = "travel"
  /\ response.success
  /\ response.choiceEvent # null
  /\ state.pendingChoice # null

\* C5: in a state that is not game over and holds a pending choice,
\* resolveChoice with any choiceId succeeds, clears pendingChoice, sets the
\* location to the stored destination, has the destination in marketsVisited
\* and advances the turn by exactly 1.
C5_ResolveCompletesTravel ==
  [][~state.gameOver /\ state.pendingChoice # null /\ lastAction' = "resolveChoice"
       => /\ response'.success
          /\ state'.pendingChoice = null
          /\ state'.player.location = state["_pendingDestination"]
          /\ Includes(state'.stats.marketsVisited, state["_pendingDestination"])
          /\ state'.turn = state.turn + 1]_vars

\* a choice was resolved and the player arrived at eu-central
C5_Arrived ==
  /\ lastAction = "resolveChoice"
  /\ response.success
  /\ response.choiceResult # null
  /\ state.pendingChoice = null
  /\ state.player.location = "eu-central"

\* C6: gameOver is terminal: in a game-over state every action is rejected
\* with 'Game is over. Start a new game.' and returns the state it was given.
C6_GameOverIsTerminal ==
  [][state.gameOver
       => /\ ~response'.success
          /\ response'.error = "Game is over. Start a new game."
          /\ state' = state]_vars

\* an action was submitted after the game was over
C6_PlayedAfterEnd ==
  /\ state.gameOver
  /\ lastAction = "travel"
  /\ response.error = "Game is over. Start a new game."

\* C7: every rejected action returns a state equal in every field,
\* pendingEvents included, to the state it was given.
C7_RejectionKeepsState ==
  [][~response'.success => state' = state]_vars

\* C8: after every successful action the quantities in the inventory sum to
\* at most inventoryCapacity.
C8_CargoWithinCapacity ==
  response.success =>
    calculateInventoryUsed(state.player.inventory) <= state.player.inventoryCapacity

\* C9: every quantity in the inventory is above 0, and a good of which none
\* is held has a key neither in inventory nor in costBasis.
C9_NoEmptyHoldings ==
  /\ \A g \in DOMAIN state.player.inventory : state.player.inventory[g] > 0
  /\ DOMAIN state.player.costBasis \subseteq DOMAIN state.player.inventory

\* C10: a milestone that is achieved stays achieved, and its achievedOnTurn
\* never changes once set.
C10_MilestonesAreKept ==
  [][\A id \in DOMAIN MILESTONES :
       state.milestones[id].achieved => state'.milestones[id] = state.milestones[id]]_vars

\* first_trade was achieved on an earlier turn than the current one
C10_AchievedEarlier ==
  /\ state.milestones["first_trade"].achieved
  /\ state.milestones["first_trade"].achievedOnTurn < state.turn
  /\ lastAction \in {"buy", "sell"}

---------------------------------------------------------------------------
(* Properties of the tail of processAction.  They are stated on what the   *)
(* switch leaves of a call (its effect) and on what the tail returns for   *)
(* it, for every call on every state a session reaches.                    *)

\* the milestones due on s: not yet achieved, and the condition holds
Due(s) ==
  {id \in DOMAIN MILESTONES :
     /\ ~s.milestones[id].achieved
     /\ conditionMet(s, MILESTONES[id].condition, calculateNetWorth(s))}

\* the milestones due on `effect` are achieved in s and listed in resp
Granted(effect, s, resp) ==
  \A id \in Due(effect) :
    s.milestones[id].achieved /\ Includes(resp.milestonesAchieved, id)

Range(seq) == {seq[i] : i \in 1..Len(seq)}

NoDuplicates(seq) == Cardinality(Range(seq)) = Len(seq)

\* the rewards of the given kind among the milestones ids, as id -> value
RewardsOf(ids, kind) ==
  [id \in {i \in ids : MILESTONES[i].reward.type = kind} |-> MILESTONES[id].reward.value]

\* C12: each milestone's reward is applied at most once.  Whatever state the
\* switch leaves, checkMilestones achieves no milestone that was achieved
\* already and none twice; it adds to reputation the deltas of the reputation
\* rewards it grants, once each; it appends the ids of the unlock_upgrade
\* rewards it grants, unlockedUpgrades never holding a duplicate; and besides
\* that it changes only the records of the milestones it grants and
\* peakNetWorth, so achievement and tutorial rewards change nothing else.
C12_RewardsOnce ==
  /\ NoDuplicates(state.unlockedUpgrades)
  /\ \A action \in Calls : \A p \in Effects(action) :
       ~p.returned =>
         LET checked == checkMilestones(p.state)
             granted == Range(checked.achieved)
             deltas == RewardsOf(granted, "reputation")
             unlocks == RewardsOf(granted, "unlock_upgrade")
         IN /\ NoDuplicates(checked.achieved)
            /\ \A id \in granted : ~p.state.milestones[id].achieved
            /\ checked.state.player.reputation =
                 p.state.player.reputation + SumOver(deltas, DOMAIN deltas)
            /\ NoDuplicates(checked.state.unlockedUpgrades)
            /\ Range(checked.state.unlockedUpgrades) =
                 Range(p.state.unlockedUpgrades) \cup {unlocks[id] : id \in DOMAIN unlocks}
            /\ \A id \in DOMAIN MILESTONES \ granted :
                 checked.state.milestones[id] = p.state.milestones[id]
            /\ [checked.state EXCEPT
                   !.milestones = p.state.milestones,
                   !.player.reputation = p.state.player.reputation,
                   !.unlockedUpgrades = p.state.unlockedUpgrades,
                   !.stats.peakNetWorth = p.state.stats.peakNetWorth] = p.state

\* debt_free, survivor and first_trade have all been granted: reputation has
\* its one delta and unlockedUpgrades its one id
C12_AllKindsGranted ==
  /\ state.milestones["debt_free"].achieved
  /\ state.milestones["survivor"].achieved
  /\ state.milestones["first_trade"].achieved
  /\ state.player.reputation = CONFIG.startingReputation + MILESTONES["debt_free"].reward.value
  /\ state.unlockedUpgrades = <<"security">>

Bankrupt(s) ==
  LET netWorth == calculateNetWorth(s) IN
  /\ s.player.debt > 0
  /\ netWorth <= 0 \/ s.player.debt > 3 * netWorth

\* balance <= 0, inventory empty and maxBorrowable <= 0
Destitute(s) ==
  LET netWorth == calculateNetWorth(s) IN
  /\ s.player.balance <= 0
  /\ s.player.inventory = EmptyObject
  /\ Max(0, 2 * Max(0, netWorth) - s.player.debt) <= 0

---------------------------------------------------------------------------
(* Properties of buy, sell, travel and borrow.                             *)

\* costBasis[good] || 0
CostBasisOf(s, good) ==
  IF good \in DOMAIN s.player.costBasis THEN s.player.costBasis[good] ELSE FracInt(0)

\* C15: a successful buy of quantity q of good g at effective unit price p
\* decreases balance by p*q, increases inventory[g] by q and costBasis[g] by
\* p*q, increments totalTrades by 1 and goodsTraded by q, achieves first_trade
\* in the same response when it is the first trade, and changes nothing else
\* in the player or the markets.
C15_BuyBooksTheTrade ==
  [][lastAction' = "buy" /\ response'.success
       => \E g \in Goods, q \in Quantities \ {0} :
            LET p == getEffectiveBuyPrice(state, g).price IN
            /\ state'.player =
                 [state.player EXCEPT
                    !.balance = @ - p * q,
                    !.inventory = Put(@, g, Get(@, g) + q),
                    !.costBasis = Put(@, g, FracAddInt(CostBasisOf(state, g), p * q))]
            /\ state'.stats.totalTrades = state.stats.totalTrades + 1
            /\ state'.stats.goodsTraded = state.stats.goodsTraded + q
            /\ state'.markets = state.markets
            /\ state.stats.totalTrades = 0
                 => /\ Includes(response'.milestonesAchieved, "first_trade")
                    /\ state'.milestones["first_trade"].achieved]_vars

\* ten units were bought at a discount as the first trade
C15_BoughtAtDiscount ==
  /\ lastAction = "buy"
  /\ response.success
  /\ Includes(response.milestonesAchieved, "first_trade")
  /\ state.stats.goodsTraded = 10
  /\ "compute" \in DOMAIN state.player.costBasis
  /\ state.player.costBasis["compute"].n <
       10 * state.markets[state.player.location].prices["compute"]
         * state.player.costBasis["compute"].d

\* the outcomes of the call on the current state
Returns(action) == processAction(state, action, Budget(action))

\* the call passes the validations that come before the funds, cargo and
\* inventory checks: no gate, a known good, a quantity above 0, a good that
\* is not restricted here
Admissible(good, quantity) ==
  /\ ~state.gameOver
  /\ state.pendingChoice = null
  /\ good \in Goods
  /\ quantity > 0
  /\ ~Includes(state.markets[state.player.location].restricted, good)

\* the outcome is a rejection that leaves inventory and balance alone
Refused(outcome) ==
  /\ ~outcome.response.success
  /\ outcome.state.player.inventory = state.player.inventory
  /\ outcome.state.player.balance = state.player.balance

\* C16: a buy is rejected whenever effective price x quantity exceeds the
\* balance or inventoryUsed + quantity exceeds inventoryCapacity, and a sell
\* whenever quantity exceeds the held quantity, inventory and balance
\* unchanged.  When the call passes the earlier validations the error is
\* 'Insufficient funds' for the first, checked first, 'Insufficient cargo
\* space' for the second and 'Insufficient inventory' for the sell.
C16_ShortfallsRejected ==
  \A good \in GoodInputs, quantity \in Quantities :
    /\ \A outcome \in Returns([action |-> "buy", good |-> good, quantity |-> quantity]) :
         LET unaffordable ==
               good \in Goods /\ getEffectiveBuyPrice(state, good).price * quantity
                                   > state.player.balance
             oversize == calculateInventoryUsed(state.player.inventory) + quantity
                           > state.player.inventoryCapacity
         IN /\ (unaffordable \/ oversize) => Refused(outcome)
            /\ (Admissible(good, quantity) /\ unaffordable)
                 => outcome.response.error = "Insufficient funds"
            /\ (Admissible(good, quantity) /\ oversize /\ ~unaffordable)
                 => outcome.response.error = "Insufficient cargo space"
    /\ \A outcome \in Returns([action |-> "sell", good |-> good, quantity |-> quantity]) :
         LET short == quantity > Get(state.player.inventory, good)
         IN /\ short => Refused(outcome)
            /\ (Admissible(good, quantity) /\ short)
                 => outcome.response.error = "Insufficient inventory"

\* a buy was rejected for cargo space although the balance covered it
C16_NoRoomForCargo ==
  /\ lastAction = "buy"
  /\ response.error = "Insufficient cargo space"
  /\ state.player.inventory # EmptyObject
  /\ state.player.balance >= 10 * state.markets[state.player.location].prices["compute"]

\* no discount and no premium is pending for the good
AtListPrice(s, good) ==
  /\ FindEvent(s.pendingEvents, "discount_buy", good) = 0
  /\ FindEvent(s.pendingEvents, "premium_sell", good) = 0

\* the states a successful buy of the good followed at once by a successful
\* sell of the same quantity leads to, from the current state
RoundTrips(good, quantity) ==
  {sold.state :
     sold \in UNION {
       {o \in processAction(bought.state,
                            [action |-> "sell", good |-> good, quantity |-> quantity], 0) :
          o.response.success} :
       bought \in {o \in Returns([action |-> "buy", good |-> good, quantity |-> quantity]) :
                     o.response.success}}}

\* C17, as stated: with no discount or premium pending, a successful buy of q
\* units of g followed at once by a successful sell of q units of g returns
\* balance, inventory and costBasis to their values before the buy.
C17_RoundTripRestoresAll ==
  \A good \in Goods, quantity \in Quantities :
    AtListPrice(state, good) =>
      \A after \in RoundTrips(good, quantity) :
        /\ after.player.balance = state.player.balance
        /\ after.player.inventory = state.player.inventory
        /\ after.player.costBasis = state.player.costBasis

\* C17, amended: with no discount or premium pending, a successful buy of q
\* units of g followed at once by a successful sell of q units of g returns
\* balance and inventory to their values before the buy; costBasis returns to
\* its value too when g had no entry in inventory or costBasis before, and
\* otherwise costBasis[g] becomes (costBasis[g] + price x q) x held / (held + q).
C17_RoundTripRestoresBalance ==
  \A good \in Goods, quantity \in Quantities :
    AtListPrice(state, good) =>
      \A after \in RoundTrips(good, quantity) :
        LET held == Get(state.player.inventory, good)
            price == state.markets[state.player.location].prices[good]
        IN /\ after.player.balance = state.player.balance
           /\ after.player.inventory = state.player.inventory
           /\ (good \notin DOMAIN state.player.inventory
                 /\ good \notin DOMAIN state.player.costBasis)
                => after.player.costBasis = state.player.costBasis
           /\ held > 0
                => after.player.costBasis =
                     Put(state.player.costBasis, good,
                         FracScale(FracAddInt(CostBasisOf(state, good), price * quantity),
                                   held, held + quantity))

\* a unit was bought and sold again at once: the player is where it was
C17_BoughtAndSoldBack ==
  /\ lastAction = "sell"
  /\ response.success
  /\ state.stats.totalTrades = 2
  /\ state.stats.goodsTraded = 2
  /\ state.player.inventory = EmptyObject
  /\ state.player.costBasis = EmptyObject
  /\ state.player.balance = CONFIG.startingBalance
  /\ state.turn = 1

\* the good is held after the step, in a smaller quantity than before it
Reduced(good) ==
  /\ good \in DOMAIN state'.player.inventory
  /\ state'.player.inventory[good] > 0
  /\ state'.player.inventory[good] < Get(state.player.inventory, good)

\* costBasis[good] has fallen by the fraction the quantity has fallen by,
\* within rounding: it is within 1/2 of costBasis x remaining / held
BasisFollows(good) ==
  LET before == CostBasisOf(state, good)
      after == CostBasisOf(state', good)
      held == state.player.inventory[good]
      remaining == state'.player.inventory[good]
  IN 2 * Abs(after.n * before.d * held - before.n * after.d * remaining)
       <= before.d * after.d * held

\* the change of calculateAverageCost(good) over the step
AverageCostShift(good) ==
  calculateAverageCost(good, state'.player) - calculateAverageCost(good, state.player)

Live == ~state.gameOver /\ state.pendingChoice = null

\* the goods held that the destination lists in restrictedGoods
AtRisk(destination) ==
  IF destination \in Markets
    THEN {g \in DOMAIN MARKETS[destination].restrictedGoods :
            Get(state.player.inventory, g) >= 1}
    ELSE {}

\* C19: while no gate stops the call, a travel to another valid market with
\* a good at risk and without confirmed:true returns success:false with error
\* 'CONFIRM_RISK', the goods at risk in atRiskGoods and the state unchanged;
\* with confirmed:true it is never rejected with CONFIRM_RISK; and a travel
\* with no good at risk never yields CONFIRM_RISK.
C19_RiskNeedsConfirmation ==
  \A destination \in MarketInputs, confirmed \in BOOLEAN :
    \A outcome \in Returns([action |-> "travel", destination |-> destination,
                            confirmed |-> confirmed]) :
      /\ (/\ Live
          /\ destination \in Markets \ {state.player.location}
          /\ AtRisk(destination) # {}
          /\ ~confirmed)
           => /\ ~outcome.response.success
              /\ outcome.response.error = "CONFIRM_RISK"
              /\ HasKey(outcome.response, "atRiskGoods")
              /\ outcome.response.atRiskGoods # <<>>
              /\ Range(outcome.response.atRiskGoods) = AtRisk(destination)
              /\ outcome.state = state
      /\ (confirmed \/ AtRisk(destination) = {})
           => outcome.response.error # "CONFIRM_RISK"

\* a travel with datasets aboard was sent back for confirmation
C19_ConfirmationAsked ==
  /\ lastAction = "travel"
  /\ response.error = "CONFIRM_RISK"
  /\ Get(state.player.inventory, "datasets") >= 1
  /\ state.player.location = "us-west"

\* C20: while no gate stops the call, a borrow of amount a succeeds iff
\* 0 < a <= max(0, 2 x max(0, netWorth) - debt); on success balance and debt
\* each grow by a, hadDebt is true, net worth is what it was, and
\* debt <= 2 x netWorth.
C20_BorrowWithinCeiling ==
  \A amount \in Amounts :
    \A outcome \in Returns([action |-> "borrow", amount |-> amount]) :
      LET netWorth == calculateNetWorth(state)
          ceiling == Max(0, 2 * Max(0, netWorth) - state.player.debt)
      IN /\ outcome.response.success <=> (Live /\ 0 < amount /\ amount <= ceiling)
         /\ outcome.response.success
              => /\ outcome.state.player.balance = state.player.balance + amount
                 /\ outcome.state.player.debt = state.player.debt + amount
                 /\ outcome.state.stats.hadDebt
                 /\ calculateNetWorth(outcome.state) = netWorth
                 /\ outcome.state.player.debt <= 2 * calculateNetWorth(outcome.state)

\* the whole ceiling was borrowed: debt is twice the net worth
C20_BorrowedToCeiling ==
  /\ lastAction = "borrow"
  /\ response.success
  /\ state.stats.hadDebt
  /\ state.player.debt > 0
  /\ state.player.debt = 2 * calculateNetWorth(state)

---------------------------------------------------------------------------
(* Properties of upgrades, pending events and restricted goods.            *)

\* the upgrade is in purchasedUpgrades
Purchased(s, upgradeId) == Includes(s.purchasedUpgrades, upgradeId)

\* C21: an upgrade purchase succeeds only if the upgrade is not purchased
\* yet, its prerequisite (if any) is purchased, its unlockedByMilestone
\* milestone (if any) is achieved and its cost is within the balance; and in
\* every reachable state purchasedUpgrades has no duplicates, cargo_3 implies
\* cargo_2 implies cargo_1, reputation_2 implies reputation_1, insurance
\* implies series_a achieved and security implies survivor achieved.
C21_UpgradesInOrder ==
  /\ \A upgradeId \in Upgrades \cup {"bogus"} :
       \A outcome \in Returns([action |-> "upgrade", upgradeId |-> upgradeId]) :
         outcome.response.success =>
           /\ upgradeId \in Upgrades
           /\ ~Purchased(state, upgradeId)
           /\ UPGRADES[upgradeId].prerequisite # NoId
                => Purchased(state, UPGRADES[upgradeId].prerequisite)
           /\ UPGRADES[upgradeId].unlockedByMilestone # NoId
                => state.milestones[UPGRADES[upgradeId].unlockedByMilestone].achieved
           /\ UPGRADES[upgradeId].cost <= state.player.balance
  /\ NoDuplicates(state.purchasedUpgrades)
  /\ Purchased(state, "cargo_3") => Purchased(state, "cargo_2")
  /\ Purchased(state, "cargo_2") => Purchased(state, "cargo_1")
  /\ Purchased(state, "reputation_2") => Purchased(state, "reputation_1")
  /\ Purchased(state, "insurance") => state.milestones["series_a"].achieved
  /\ Purchased(state, "security") => state.milestones["survivor"].achieved

\* the whole cargo chain and the insurance were bought, and the security
\* suite is still locked
C21_CargoChainBought ==
  /\ Purchased(state, "cargo_3")
  /\ Purchased(state, "insurance")
  /\ ~state.milestones["survivor"].achieved
  /\ \E outcome \in Returns([action |-> "upgrade", upgradeId |-> "security"]) :
       ~outcome.response.success

\* the upgrades that are the unlock_upgrade reward of a milestone
RewardUpgrades ==
  {MILESTONES[id].reward.value :
     id \in {m \in DOMAIN MILESTONES : MILESTONES[m].reward.type = "unlock_upgrade"}}

\* C22: an upgrade that is the unlock_upgrade reward of a milestone is not
\* purchased before that milestone has unlocked it: every such purchased
\* upgrade is also in unlockedUpgrades.
C22_PurchasedWereUnlocked ==
  \A upgradeId \in RewardUpgrades :
    Purchased(state, upgradeId) => Includes(state.unlockedUpgrades, upgradeId)

\* the pending events with the given effect for the good
Offers(s, effect, good) ==
  {i \in 1..Len(s.pendingEvents) :
     /\ "effect" \in DOMAIN s.pendingEvents[i]
     /\ s.pendingEvents[i].effect = effect
     /\ s.pendingEvents[i].good = good}

\* the list is the other list with one entry of the given positions taken out
OneTaken(list, from, positions) ==
  \E i \in positions :
    /\ Len(list) = Len(from) - 1
    /\ \A j \in 1..Len(list) : list[j] = IF j < i THEN from[j] ELSE from[j + 1]

\* a successful trade of the good moved the balance by the price the state
\* it was given reports, took one offer for the good and that effect if
\* there was one, and left every other pending event in place
TradedAtReportedPrice(outcome, good, amount, effect) ==
  outcome.response.success =>
    /\ outcome.state.player.balance = state.player.balance + amount
    /\ IF Offers(state, effect, good) = {}
         THEN outcome.state.pendingEvents = state.pendingEvents
         ELSE OneTaken(outcome.state.pendingEvents, state.pendingEvents,
                       Offers(state, effect, good))

\* C23: a pending discount_buy (premium_sell) event for good g is single-use:
\* a successful buy (sell) of g charges (pays) the per-unit price that
\* getEffectiveBuyPrice (getEffectiveSellPrice) reports for the input state,
\* removes exactly one such event from pendingEvents and leaves all other
\* pending events in place; a trade of a different good does not consume it.
C23_OffersAreSingleUse ==
  \A good \in Goods, quantity \in Quantities :
    /\ \A outcome \in Returns([action |-> "buy", good |-> good, quantity |-> quantity]) :
         TradedAtReportedPrice(outcome, good,
                               0 - getEffectiveBuyPrice(state, good).price * quantity,
                               "discount_buy")
    /\ \A outcome \in Returns([action |-> "sell", good |-> good, quantity |-> quantity]) :
         TradedAtReportedPrice(outcome, good,
                               getEffectiveSellPrice(state, good).price * quantity,
                               "premium_sell")

\* a unit of compute was bought at a discount and sold at a premium while a
\* second discount stayed pending, and a trade of datasets leaves it pending
C23_OneDiscountLeft ==
  /\ lastAction = "sell"
  /\ response.success
  /\ state.player.balance > Courted.player.balance
  /\ Get(state.player.inventory, "compute") = 0
  /\ Len(state.pendingEvents) = 1
  /\ Offers(state, "discount_buy", "compute") = {1}
  /\ \E outcome \in processAction(state, [action |-> "sell", good |-> "datasets",
                                          quantity |-> 1], 0) :
       outcome.response.success /\ outcome.state.pendingEvents = state.pendingEvents

\* the pending events that are discount or premium offers
AllOffers(s) ==
  {i \in 1..Len(s.pendingEvents) :
     /\ "effect" \in DOMAIN s.pendingEvents[i]
     /\ s.pendingEvents[i].effect \in {"discount_buy", "premium_sell"}}

\* C24: pendingEvents is a TTL queue: a discount_buy or premium_sell event
\* that no trade consumes is removed no later than the third turn advance
\* after it was pushed.  Where every offer was pushed three turn advances or
\* more before the session starts and nothing is pushed during it, no offer
\* is pending.
C24_OffersExpire ==
  AllOffers(state) = {}

\* every buy and sell of the good where the player is, whatever the
\* quantity, is rejected as restricted
RejectedHere(good) ==
  \A kind \in {"buy", "sell"}, quantity \in Quantities \ {0} :
    \A outcome \in Returns([action |-> kind, good |-> good, quantity |-> quantity]) :
      /\ ~outcome.response.success
      /\ outcome.response.error = "is restricted in this market"

\* a unit of the good carried into the market is at risk of seizure
SeizableInto(market, good) ==
  getAtRiskGoods([state EXCEPT !.player.inventory = Put(EmptyObject, good, 1)], market) # <<>>

\* C25, as stated: 'restricted' means one thing: where the player is, a good
\* is rejected by buy and sell if and only if carrying it into that market is
\* at risk of seizure.
C25_RestrictedMeansOne ==
  Live => \A good \in TradedGoods :
            RejectedHere(good) <=> SeizableInto(state.player.location, good)

\* C25, amended: buy and sell reject a good where the player is if and only
\* if the market's restricted list in the state includes it; a good carried
\* into a market is at risk of seizure if and only if MARKETS lists it in the
\* market's restrictedGoods, and an arrival seizure takes such goods only.
C25_TwoRestrictions ==
  Live =>
    /\ \A good \in TradedGoods :
         /\ RejectedHere(good)
              <=> Includes(state.markets[state.player.location].restricted, good)
         /\ \A market \in Markets :
              SeizableInto(market, good) <=> good \in DOMAIN MARKETS[market].restrictedGoods
    /\ \A destination \in MarketInputs \cap Markets :
         \A outcome \in Returns([action |-> "travel", destination |-> destination,
                                 confirmed |-> TRUE]) :
           \A i \in 1..Len(outcome.response.seizures) :
             outcome.response.seizures[i].good
               \in DOMAIN MARKETS[destination].restrictedGoods

\* in eu-central an export ban has restricted compute, which no market
\* seizes, and a buy of it was rejected, while datasets, which eu-central
\* seizes, are traded freely
C25_BannedButNotSeized ==
  /\ lastAction = "buy"
  /\ response.error = "is restricted in this market"
  /\ state.player.location = "eu-central"
  /\ Includes(state.markets["eu-central"].restricted, "compute")
  /\ ~SeizableInto("eu-central", "compute")
  /\ SeizableInto("eu-central", "datasets")
  /\ ~RejectedHere("datasets")

---------------------------------------------------------------------------
(* Properties of getAvailableActions.                                      *)

\* the quantities or amounts a listed action is submitted with: the ends of
\* 1..bound and its middle
Picks(bound) == {1, (bound + 1) \div 2, bound}

\* the calls that submit a listed action: with a quantity or amount of
\* 1..bound, or as listed
Submissions(listed) ==
  CASE listed.action \in {"buy", "sell"} ->
         {[action |-> listed.action, good |-> listed.good, quantity |-> q] :
            q \in Picks(listed.maxQuantity)}
    [] listed.action = "travel" ->
         {[action |-> "travel", destination |-> listed.destination, confirmed |-> FALSE]}
    [] listed.action = "wait" -> {[action |-> "wait"]}
    [] listed.action \in {"borrow", "payDebt"} ->
         {[action |-> listed.action, amount |-> a] : a \in Picks(listed.maxAmount)}
    [] listed.action = "upgrade" ->
         {[action |-> "upgrade", upgradeId |-> listed.upgradeId]}

\* every way of submitting the listed action returns success:true
Legal(listed) ==
  \A action \in Submissions(listed) :
    \A outcome \in Returns(action) : outcome.response.success

\* the actions getAvailableActions lists for the current state
Listed ==
  LET actions == getAvailableActions(state)
  IN {actions[i] : i \in 1..Len(actions)}

\* C26, as stated: getAvailableActions(state) enumerates only legal moves:
\* each returned action, submitted with a quantity or amount between 1 and
\* its bound (or as listed, for travel, wait and upgrade), returns
\* success:true.
C26_ListedAreLegal ==
  \A listed \in Listed : Legal(listed)

\* C26, amended: while the game is not over and no choice is pending, each
\* returned buy, sell, wait, borrow and payDebt, each returned travel to a
\* market that puts no held good at risk and each returned upgrade with
\* canAfford:true returns success:true when submitted so, and each returned
\* travel does when submitted with confirmed:true; once the game is over or
\* a choice is pending, every listed action is rejected.
C26_ListedAreLegalWhenLive ==
  \A listed \in Listed :
    IF Live
      THEN /\ (/\ listed.action = "upgrade" => listed.canAfford
               /\ listed.action = "travel" => AtRisk(listed.destination) = {})
                => Legal(listed)
           /\ listed.action = "travel" =>
                \A outcome \in Returns([action |-> "travel",
                                         destination |-> listed.destination,
                                         confirmed |-> TRUE]) :
                  outcome.response.success
      ELSE \A action \in Submissions(listed) :
             \A outcome \in Returns(action) : ~outcome.response.success

\* a player in debt who holds goods and can afford an upgrade: buys, a
\* sell, travels, a borrow, a payDebt and an affordable upgrade are listed
C26_EveryKindListed ==
  /\ Live
  /\ {listed.action : listed \in Listed}
       = {"buy", "sell", "travel", "wait", "borrow", "payDebt", "upgrade"}
  /\ \E listed \in Listed : listed.action = "upgrade" /\ listed.canAfford

---------------------------------------------------------------------------
(* Properties of save data.                                                *)

\* the object with the key set to the value, or without the key when the
\* value is undefined
With(obj, key, v) ==
  Obj(IF v = undefined THEN [k \in DOMAIN obj.value \ {key} |-> obj.value[k]]
      ELSE [k \in DOMAIN obj.value \cup {key} |-> IF k = key THEN v ELSE obj.value[k]])

\* a value of each kind; undefined stands for a missing key
OfKind(kind) ==
  CASE kind = "undefined" -> undefined
    [] kind = "null" -> null
    [] kind = "string" -> Str("1")
    [] kind = "number" -> Num(1)
    [] kind = "object" -> Obj(EmptyObject)

\* the kinds of value that are not of the given type
Mistyped(type) == {"undefined", "null", "string", "number", "object"} \ {type}

\* the ways of tampering with save data: one of version, state,
\* player.balance, player.location, player.inventory, markets or turn is
\* missing or mistyped
Tamperings ==
  {[field |-> "version", kind |-> k] : k \in {"undefined", "null"}}
    \cup {[field |-> "state", kind |-> k] : k \in {"undefined", "null", "string", "number"}}
    \cup UNION {{[field |-> j, kind |-> k] : k \in Mistyped(PlayerFields[j])} :
                  j \in DOMAIN PlayerFields}
    \cup UNION {{[field |-> i, kind |-> k] : k \in Mistyped(StateFields[i])} :
                  i \in DOMAIN StateFields}

\* the save data tampered with in the given way
Tampered(saveData, way) ==
  LET st == saveData.value.state
      v == OfKind(way.kind)
  IN IF way.field \in {"version", "state"} THEN With(saveData, way.field, v)
     ELSE IF way.field \in DOMAIN PlayerFields
       THEN With(saveData, "state", With(st, "player", With(st.value.player, way.field, v)))
     ELSE With(saveData, "state", With(st, way.field, v))

\* an event log the caller keeps
Log == <<[test |-> "event"]>>

---------------------------------------------------------------------------
(* Properties of debt interest.                                            *)

\* the rate (percent) for a debt d and a net worth: 12 when the net worth is
\* not positive or d / netWorth >= 1, 8 when 0.5 <= d / netWorth < 1, else 5
Tier(d, netWorth) ==
  IF netWorth <= 0 \/ d >= netWorth THEN 12
  ELSE IF 2 * d >= netWorth THEN 8
  ELSE 5

\* the calls whose cases ask for the turn to advance
Advancing == {action \in Calls : action.action \in {"travel", "wait", "resolveChoice"}}

C28_HighRateCharged ==
  /\ lastAction \in {"travel", "wait"}
  /\ response.success
  /\ HasKey(response, "turnAdvanced") /\ response.turnAdvanced
  /\ state.player.debt > 0
  /\ state.player.debtInterestRate = 12

C28_BaseRateCharged ==
  /\ lastAction \in {"travel", "wait"}
  /\ response.success
  /\ HasKey(response, "turnAdvanced") /\ response.turnAdvanced
  /\ state.player.debt > 0
  /\ state.player.debtInterestRate = 5

---------------------------------------------------------------------------
(* Properties of prices.                                                   *)

\* the bounds hold the price
Within(price, bounds) == bounds.min <= price /\ price <= bounds.max

\* price draws at both ends of Math.random() (hundredths)
WalkDraws == {0, 99}

\* the factors (percent) an event shock multiplies a price by before the
\* price update of the same turn: the deepest drop (datasets leak, 30%) and
\* the highest rise (compute breakthrough, 30%)
ShockFactors == {70, 130}

\* C29: in every state reachable from createGame() by submitAction, every
\* market's price of every good is a positive integer within
\* [round(baseMin * modifier * 0.7), round(baseMax * modifier * 1.3)]; and
\* the price update brings any such price back within the bounds, after an
\* event shock of the same turn as well.
C29_PricesWithinBounds ==
  \A m \in Markets, g \in Goods :
    LET price == state.markets[m].prices[g] IN
    /\ price \in Nat \ {0}
    /\ Within(price, PriceBounds(m, g))
    /\ \A r \in WalkDraws, factor \in ShockFactors :
         LET newPrice == NewPrice(m, g, RoundDiv(price * factor, 100),
                                  state.markets[m].supply[g], r)
         IN newPrice \in Nat \ {0} /\ Within(newPrice, PriceBounds(m, g))

\* a turn has advanced with a price shock among its events
C29_ShockedAndClamped ==
  /\ HasKey(response, "turnAdvanced") /\ response.turnAdvanced
  /\ \E i \in 1..Len(response.events) :
       /\ "effect" \in DOMAIN response.events[i]
       /\ response.events[i].effect \in {"drop", "rise"}

---------------------------------------------------------------------------
(* Properties of the price history.                                        *)

\* the list holds between 1 and 8 prices and ends with the current one
Recent(history, price) ==
  /\ Len(history) \in 1..8
  /\ history[Len(history)] = price

\* the list after the price is appended to a list of at most 8 entries, the
\* oldest leaving a full list
Slid(history, price) ==
  IF Len(history) = 8 THEN Tail(history) \o <<price>> ELSE history \o <<price>>

\* every priceHistory list is Recent
HistoriesRecent ==
  \A m \in Markets, g \in Goods :
    Recent(state.markets[m].priceHistory[g], state.markets[m].prices[g])

\* a step that advances the turn slides every list by the new price; any
\* other step leaves the lists as they are
HistoriesSlide ==
  \A m \in Markets, g \in Goods :
    state'.markets[m].priceHistory[g] =
      IF state'.turn = state.turn + 1
        THEN Slid(state.markets[m].priceHistory[g], state'.markets[m].prices[g])
        ELSE state.markets[m].priceHistory[g]

\* C30: in every reachable state each priceHistory list has between 1 and 8
\* entries and its last entry is the current price; each turn advance
\* appends the new price and evicts the oldest entry of a full list, and no
\* other step touches the lists.
C30_HistoryHoldsRecentPrices == []HistoriesRecent /\ [][HistoriesSlide]_vars

\* a full list has slid: the turn has advanced past the one where the list
\* filled, and the newest price differs from the one before it
C30_FullListSlid ==
  /\ HasKey(response, "turnAdvanced") /\ response.turnAdvanced
  /\ \E m \in Markets, g \in Goods :
       LET history == state.markets[m].priceHistory[g] IN
       /\ Len(history) = 8
       /\ state.turn > 9
       /\ history[8] # history[7]

---------------------------------------------------------------------------
(* Properties of choice resolution.                                        *)

\* a choice of the given type is pending
Pending(type) == state.pendingChoice # null /\ state.pendingChoice.type = type

\* the goods the market lists in restrictedGoods
RestrictedAt(market) == DOMAIN MARKETS[market].restrictedGoods

\* the two states hold the same units and the same cost basis of the good
SameHolding(s, t, good) ==
  /\ Get(s.player.inventory, good) = Get(t.player.inventory, good)
  /\ good \in DOMAIN s.player.costBasis <=> good \in DOMAIN t.player.costBasis
  /\ good \in DOMAIN s.player.costBasis => s.player.costBasis[good] = t.player.costBasis[good]

\* the seizure rolls an arrival is examined with
MaxSeizures == 1

\* C31: resolving a smuggler choice with use_smuggler: on success the
\* arrival seizure check is skipped (no seizure is reported and
\* checkSeizureRisk removes nothing, whatever its rolls); on failure every
\* good restricted at the destination leaves inventory and costBasis
\* entirely, and the goods not restricted there are untouched by the
\* resolution; the arrival that follows reports no seizure either way.
C31_SmugglerAllOrNothing ==
  Pending("smuggler") =>
    LET destination == state.pendingChoice.destination IN
    \A d \in ResolveDraws :
      LET resolved == resolveChoiceEvent(state, "use_smuggler", d).state
          journey == DeleteKey(resolved, "_pendingDestination")
      IN /\ IF d.first < state.pendingChoice.params.success
              THEN \A draws \in SeizureDraws(journey, destination, MaxSeizures) :
                     LET checked == checkSeizureRisk(journey, destination, draws) IN
                     /\ checked.seized = <<>>
                     /\ \A g \in Goods : SameHolding(checked.state, state, g)
              ELSE /\ \A g \in RestrictedAt(destination) :
                        /\ g \notin DOMAIN resolved.player.inventory
                        /\ g \notin DOMAIN resolved.player.costBasis
                   /\ \A g \in Goods \ RestrictedAt(destination) : SameHolding(resolved, state, g)
         /\ \A a \in arrive(journey, destination, MaxSeizures) : a.seized = <<>>

\* a journey into eu-central has ended with the smuggler caught: the
\* datasets are gone, the compute is still held, and no seizure is reported
C31_SmugglerCaught ==
  /\ lastAction = "resolveChoice"
  /\ response.success
  /\ response.choiceResult.lostMoney > 0
  /\ response.seizures = <<>>
  /\ state.player.location = "eu-central"
  /\ "datasets" \notin DOMAIN state.player.inventory
  /\ Get(state.player.inventory, "compute") > 0

\* C32: resolving a pending choice of any type with 'decline' changes
\* nothing in the resolution step but pendingChoice, which is cleared:
\* balance, debt, inventory, costBasis and pendingEvents are as before.
C32_DeclineOnlyClears ==
  state.pendingChoice # null =>
    \A d \in ResolveDraws :
      LET resolved == resolveChoiceEvent(state, "decline", d) IN
      /\ resolved.state = [state EXCEPT !.pendingChoice = null]
      /\ resolved.state.player.balance = state.player.balance
      /\ resolved.state.player.debt = state.player.debt
      /\ resolved.state.player.inventory = state.player.inventory
      /\ resolved.state.player.costBasis = state.player.costBasis
      /\ resolved.state.pendingEvents = state.pendingEvents
      /\ resolved.result = NoResult

\* a choice has been declined and the journey has ended: nothing was won,
\* lost or gained
C32_Declined ==
  /\ lastAction = "resolveChoice"
  /\ response.success
  /\ state.pendingChoice = null
  /\ response.choiceResult = NoResult
  /\ HasKey(response, "turnAdvanced") /\ response.turnAdvanced

\* choices of each type are raised
C32_ShadyDealPending == Pending("shady_deal")

C32_GamblingPending == Pending("gambling")

C32_IntelPending == Pending("intel")

C32_SmugglerPending == Pending("smuggler")

---------------------------------------------------------------------------
(* Properties of restrict and unrestrict events.                           *)

\* the (market, good) pairs the state restricts
Restrictions(s) ==
  {p \in Markets \X Goods : Includes(s.markets[p[1]].restricted, p[2])}

\* no list of restricted goods names a good twice
NoGoodTwice(s) == \A m \in Markets : NoDuplicates(s.markets[m].restricted)

\* the regulation events rollForEvents can build: a restriction in
\* china-east or eu-central, or a lifted ban naming any market
Bans ==
  {[id |-> "export_ban", type |-> "regulation", effect |-> "restrict",
    good |-> g, market |-> m] : g \in TradedGoods, m \in {"china-east", "eu-central"}}

Lifts ==
  {[id |-> "export_ban", type |-> "regulation", effect |-> "unrestrict",
    good |-> g, market |-> m] : g \in TradedGoods, m \in Markets}

\* the current state, and the states one more ban leads to
Regulated == {state} \cup {applyEvent(state, ban) : ban \in Bans}

\* a restrict event for (m, g) adds g to m's restricted list, once, and
\* changes nothing else
BanAdds(s, ban) ==
  LET after == applyEvent(s, ban) IN
  /\ Restrictions(after) = Restrictions(s) \cup {<<ban.market, ban.good>>}
  /\ NoGoodTwice(after)
  /\ [after EXCEPT !.markets = s.markets] = s
  /\ \A m \in Markets :
       [after.markets[m] EXCEPT !.restricted = s.markets[m].restricted] = s.markets[m]

\* the entry an unrestrict event takes: the last one of the first market,
\* in the order of state.markets, that restricts anything; {} if none does
Popped(s) ==
  LET hit == {i \in 1..Len(MarketIds) : Len(s.markets[MarketIds[i]].restricted) > 0} IN
  IF hit = {} THEN {}
  ELSE LET m == MarketIds[CHOOSE i \in hit : \A j \in hit : i <= j]
       IN {<<m, s.markets[m].restricted[Len(s.markets[m].restricted)]>>}

\* C33 as stated: an unrestrict event that names good g and market m removes
\* g from m's restricted set and nothing else; a restrict event for (m, g)
\* adds g to m's restricted set without a duplicate.
C33_UnrestrictRemovesNamed ==
  \A s \in Regulated :
    /\ NoGoodTwice(s)
    /\ \A ban \in Bans : BanAdds(s, ban)
    /\ \A lift \in Lifts :
         Restrictions(applyEvent(s, lift)) = Restrictions(s) \ {<<lift.market, lift.good>>}

\* C33: an unrestrict event removes the last entry of the restricted list of
\* the first market, in the order of state.markets, whose list is not empty,
\* whatever good and market the event names, and nothing else; when nothing
\* is restricted it changes nothing.  A restrict event for (m, g) adds g to
\* m's restricted set without a duplicate.
C33_UnrestrictPopsFirst ==
  \A s \in Regulated :
    /\ NoGoodTwice(s)
    /\ \A ban \in Bans : BanAdds(s, ban)
    /\ \A lift \in Lifts :
         LET after == applyEvent(s, lift) IN
         /\ Restrictions(after) = Restrictions(s) \ Popped(s)
         /\ NoGoodTwice(after)
         /\ [after EXCEPT !.markets = s.markets] = s

\* an export ban has restricted a good in a market that is not the first
C33_BanInForce ==
  /\ \E i \in 1..Len(response.events) : response.events[i].effect = "restrict"
  /\ Restrictions(state) # {}
  /\ \A g \in Goods : <<"us-west", g>> \notin Restrictions(state)

---------------------------------------------------------------------------
(* Properties of balance and debt.                                         *)

\* C34: in every state reachable from createGame() by submitAction the
\* balance and the debt are not negative, whatever the outcomes of choices,
\* hack and audit events, upgrades and debt payments.
C34_NeverNegative ==
  /\ state.player.balance >= 0
  /\ state.player.debt >= 0

\* a hack or an audit has taken money from a player in debt
C34_FinedInDebt ==
  /\ \E i \in 1..Len(response.events) : response.events[i].effect \in {"money_loss", "fine"}
  /\ state.player.debt > 0

\* a gamble has been lost
C34_GambleLost ==
  /\ lastAction = "resolveChoice"
  /\ response.success
  /\ response.choiceResult.lostMoney > 0

\* the hack and audit events rollForEvents can build in the state
Fines(s) ==
  PossibleEvents(s, "exchange_hack", FALSE, "null")
    \cup PossibleEvents(s, "tax_audit", FALSE, "null")

\* every such event takes an amount that is not negative, and leaves
\* max(0, balance - amount)
FinesTake(s) ==
  \A event \in Fines(s) :
    /\ event.amount >= 0
    /\ applyEvent(s, event).player.balance = Max(0, s.player.balance - event.amount)
    /\ applyEvent(s, event).player.balance <= s.player.balance

\* C35: a hack (money_loss) or audit (fine) event never increases the
\* balance: on every state in which a turn advance rolls for events, the
\* amount is not negative and the balance after is max(0, balance - amount).
C35_FinesNeverPay ==
  \A action \in Advancing :
    \A p \in Effects(action) :
      (~p.returned /\ p.shouldAdvanceTurn) =>
        FinesTake(applyInterest(checkMilestones(p.state).state))

---------------------------------------------------------------------------
(* Properties of the journey flags.                                        *)

\* C36: in every state submitAction returns, _pendingDestination is present
\* if and only if a choice is pending, _smuggledThisTrip is never present,
\* and gameOver and a pending choice are never both set.
C36_FlagsFollowChoice ==
  /\ HasKey(state, "_pendingDestination") <=> state.pendingChoice # null
  /\ ~HasKey(state, "_smuggledThisTrip")
  /\ ~(state.gameOver /\ state.pendingChoice # null)

\* a smuggler has brought the datasets into eu-central: the journey is over
\* and nothing was seized
C36_Smuggled ==
  /\ lastAction = "resolveChoice"
  /\ response.success
  /\ response.choiceResult.lostMoney > 0
  /\ response.seizures = <<>>
  /\ state.player.location = "eu-central"
  /\ Get(state.player.inventory, "datasets") > 0
  /\ state.pendingChoice = null

\* a game has ended
C36_GameOver == state.gameOver

\* the choice ids the pending choice offers
OfferedIds == {state.pendingChoice.choices[i] : i \in 1..Len(state.pendingChoice.choices)}

\* C37: resolveChoice applies an outcome only for a choice id the pending
\* choice offers: resolving with an id that was not offered changes neither
\* the balance, nor the inventory, nor pendingEvents.
C37_OnlyOfferedChoicesAct ==
  state.pendingChoice # null =>
    \A choiceId \in ChoiceInputs \ OfferedIds :
      \A d \in ResolveDraws :
        LET resolved == resolveChoiceEvent(state, choiceId, d).state IN
        /\ resolved.player.balance = state.player.balance
        /\ resolved.player.inventory = state.player.inventory
        /\ resolved.pendingEvents = state.pendingEvents

---------------------------------------------------------------------------
(* Properties of unconfirmed journeys.                                     *)

\* the draws of a choice event: those of ChoiceDraws, and the same with the
\* smallest quantity
DealDraws == ChoiceDraws \cup {[d EXCEPT !.quantity = 0] : d \in ChoiceDraws}

\* the choice events a travel to the destination can raise, the good of the
\* offer being one the destination lists in restrictedGoods
ChoicesRaised(s, destination) ==
  UNION {
    IF TRAVEL_CHOICES[type].requiresRestrictedGoods => HasRestricted(s, destination)
      THEN {generateChoiceEvent(type, s, destination, TRAVEL_CHOICES[type].templates[i], g, d) :
              i \in 1..Len(TRAVEL_CHOICES[type].templates),
              g \in RestrictedAt(destination), d \in DealDraws}
      ELSE {} : type \in DOMAIN TRAVEL_CHOICES}

\* the state a travel returns when it raises the choice
Suspended(s, destination, choiceEvent) ==
  SetKey([s EXCEPT !.pendingChoice = choiceEvent], "_pendingDestination", destination)

\* the choice ids the choice event offers
OfferedChoices(choiceEvent) == {choiceEvent.choices[i] : i \in 1..Len(choiceEvent.choices)}

\* the seizure check took no unit
NothingSeized(seizures) == \A i \in 1..Len(seizures) : seizures[i].quantity = 0

\* C38: the arrival seizure check removes goods only on a journey whose
\* travel was sent with confirmed:true: when a travel is accepted without
\* confirmation, no unit of any good is seized when the journey completes,
\* at once or through resolveChoice.
C38_UnconfirmedNeverSeized ==
  (~state.gameOver /\ state.pendingChoice = null) =>
    \A destination \in (MarketInputs \cap Markets) \ {state.player.location} :
      getAtRiskGoods(state, destination) = <<>> =>
        /\ \A a \in arrive(state, destination, MaxSeizures) : NothingSeized(a.seized)
        /\ \A choiceEvent \in ChoicesRaised(state, destination) :
             \A choiceId \in OfferedChoices(choiceEvent) :
               \A outcome \in processAction(Suspended(state, destination, choiceEvent),
                                            [action |-> "resolveChoice", choiceId |-> choiceId],
                                            MaxSeizures) :
                 NothingSeized(outcome.response.seizures)

---------------------------------------------------------------------------
(* Properties of the statistics.                                           *)

\* after a successful action the peak is at least the net worth returned
PeakCoversNetWorth == response.success => state.stats.peakNetWorth >= response.netWorth

\* no step lowers the peak
PeakKept == state'.stats.peakNetWorth >= state.stats.peakNetWorth

\* C39: stats.peakNetWorth is a high-water mark: it never decreases, and
\* after every successful action it is at least the net worth of the state
\* returned (response.netWorth).
C39_PeakIsHighWaterMark == []PeakCoversNetWorth /\ [][PeakKept]_vars

---------------------------------------------------------------------------
(* Properties of reputation and inventory capacity.                        *)

\* The upgrades bought and the milestones achieved that carry an effect of
\* the given type.
Bought(s, type) == {u \in Range(s.purchasedUpgrades) : UPGRADES[u].effect.type = type}

Rewarded(s, type) ==
  {m \in DOMAIN MILESTONES : s.milestones[m].achieved /\ MILESTONES[m].reward.type = type}

EffectValues == [u \in Upgrades |-> UPGRADES[u].effect.value]

RewardValues == [m \in DOMAIN MILESTONES |-> MILESTONES[m].reward.value]

\* Every source counted once: the starting value plus the effect of each
\* upgrade bought and the reward of each milestone achieved.
ReputationOf(s) ==
  CONFIG.startingReputation + SumOver(EffectValues, Bought(s, "reputation"))
                            + SumOver(RewardValues, Rewarded(s, "reputation"))

CapacityOf(s) ==
  CONFIG.startingInventoryCapacity + SumOver(EffectValues, Bought(s, "inventory"))

Capacities == {10, 15, 25, 45}

SourcesOnce ==
  /\ NoDuplicates(state.purchasedUpgrades)
  /\ state.player.inventoryCapacity = CapacityOf(state)
  /\ state.player.inventoryCapacity \in Capacities
  /\ state.player.reputation = ReputationOf(state)
  /\ state.player.reputation \in 50..95

NeverLowered ==
  /\ state'.player.reputation >= state.player.reputation
  /\ state'.player.inventoryCapacity >= state.player.inventoryCapacity

\* C40: over any action sequence from createGame(), reputation and
\* inventoryCapacity never decrease and each of their sources applies at
\* most once: reputation is 50 plus the effects of the reputation upgrades
\* bought and the rewards of the reputation milestones achieved, so it stays
\* within 50..95, and inventoryCapacity is 10 plus the effects of the cargo
\* upgrades bought, so it is one of 10, 15, 25, 45.
C40_SourcesApplyOnce == []SourcesOnce /\ [][NeverLowered]_vars

\* All three cargo upgrades and a reputation upgrade have been bought.
C40_FullyUpgraded ==
  /\ state.player.inventoryCapacity = 45
  /\ state.player.reputation > CONFIG.startingReputation
  /\ lastAction = "upgrade"

\* Both reputation upgrades have been bought.
C40_ReputationUpgraded ==
  /\ Includes(state.purchasedUpgrades, "reputation_2")
  /\ state.player.reputation = 80

\* A milestone has paid its reputation reward.
C40_ReputationRewarded == Rewarded(state, "reputation") # {}

====
